---------------------------- MODULE Spec2Model ----------------------------
(***************************************************************************)
(* A model of the trading pipeline of ProjectTradingSystem: the order      *)
(* book, the simulated matching engine, the simulated risk engine, the     *)
(* order manager, the strategies and the backtester.                       *)
(*                                                                         *)
(* Prices are integers counted in ticks (tick_size = 0.01 in the source),  *)
(* so float rounding is not modelled.  An order carries its client         *)
(* timestamp ts; the wall clock and the Logger output are left out: no     *)
(* modelled decision reads them.                                           *)
(***************************************************************************)
EXTENDS Integers, Sequences, FiniteSets, TLC

VARIABLES
    book,      \* OrderBook: [bids, asks, orders, seq]
    trades,    \* the trade list returned by the last add_order / modify_order
    fills,     \* history: per trade of that call, the orders map before the fill
    admitted,  \* history: the record that call admitted, before matching
    meIn,      \* MatchingEngine.simulate_execution: the order and the random draws
    meOut,     \* ... and what the call returned
    risk,      \* RiskEngineSim: limits, cash_balance, positions and totals
    riskRet,   \* what the last RiskEngineSim.check call returned
    om,        \* OrderManagerServer: [orders, next_id]
    omLog,     \* history: what the last processed frame did
    omHist,    \* history: frames processed, initial cash, filled notionals
    strat,     \* one strategy instance: its class, parameters, data and state
    stratRet,  \* what the last get_signal_at_index call returned
    emitted,   \* history: every signal the instance emitted, in order
    bt,        \* Backtester: accounting state, the bars and the place in run()
    btRet,     \* what run() returned: the performance metrics
    btHist,    \* history: the draws of this run and what earlier runs gave
    conv,      \* one Order on its way through asdict and Order.from_dict
    conn,      \* one client connection of the server: open or not, acks sent
    mt,        \* the handler threads that share the risk engine
    single,    \* RiskEngineSim as a singleton: the class, the instance, the callers
    audit,     \* the audit CSV file: its rows, <<>> while it does not exist
    poRet      \* what the last OrderManager.process_order call returned

bookVars == <<book, trades, fills, admitted>>

meVars == <<meIn, meOut>>

riskVars == <<risk, riskRet>>

omVars == <<om, omLog, omHist, conn, poRet>>

convVars == <<conv>>

mtVars == <<mt>>

stratVars == <<strat, stratRet, emitted>>

btVars == <<bt, btRet, btHist>>

\* the variables the calls of one component leave alone
offBook == <<meVars, riskVars, omVars, stratVars, btVars, convVars, mtVars, single, audit>>

offMe == <<bookVars, riskVars, omVars, stratVars, btVars, convVars, mtVars, single, audit>>

offRisk == <<bookVars, meVars, omVars, stratVars, btVars, convVars, mtVars, single, audit>>

offOm == <<bookVars, meVars, riskRet, stratVars, btVars, convVars, mtVars, single, audit, poRet>>

offStrat == <<bookVars, meVars, riskVars, omVars, btVars, convVars, mtVars, single, audit>>

offBt == <<bookVars, meVars, riskRet, omLog, omHist, conn, poRet, stratVars, convVars, mtVars, single>>

offPo == <<bookVars, meVars, riskRet, omLog, omHist, conn, stratVars, btVars, convVars, mtVars, single>>

offConv == <<bookVars, meVars, riskVars, omVars, stratVars, btVars, mtVars, single, audit>>

offMt == <<bookVars, meVars, riskRet, omVars, stratVars, btVars, convVars, single, audit>>

vars == <<book, trades, fills, admitted, meIn, meOut, risk, riskRet,
          om, omLog, omHist, strat, stratRet, emitted, bt, btRet, btHist,
          conv, conn, mt, single, audit, poRet>>

\* Python's None, as a number no id, price or quantity takes
None == -1

\* no record: what a call that returned early admitted
NoRecord == [order_id |-> None]

Min(a, b) == IF a <= b THEN a ELSE b

Abs(a) == IF a < 0 THEN -a ELSE a

\* F applied to the value of e: e is computed once, however often F reads it
Let(F(_), e) == CHOOSE r \in {F(x) : x \in {e}} : TRUE

(***************************************************************************)
(* Bounds and input sets                                                   *)
(***************************************************************************)
MaxSeq == 3

OrderIds == {1, 2, 3}

BookPrices == {99, 100}

BookQtys == {4, 10}

Sides == {"BUY", "SELL"}

\* MatchingEngine inputs: order sizes 1..MaxMeQty, prices in ticks, and the
\* sizes max(1, int(gauss(100, 20))) of the synthetic orders
MaxMeQty == 3

MePrices == {3, 100}

SynthQtys == {1, 100}

\* RiskEngineSim: at most MaxFills recorded fills, orders of 1..MaxRiskQty
MaxFills == 3

MaxRiskQty == 2

Symbols == {"ABC", "XYZ"}

RiskPrices == {1, 2}

\* OrderManagerServer: at most MaxFrames frames, payload qty up to MaxOmQty
MaxFrames == 3

MaxOmQty == 2

\* strategies: data frames of up to MaxBars rows, at most MaxEmitted signals
MaxBars == 4

MaxEmitted == 4

\* Backtester: market data of up to MaxBtBars bars, at most MaxRuns runs
MaxBtBars == 3

MaxRuns == 2

(***************************************************************************)
(* OrderBook (orderbook.py)                                                *)
(***************************************************************************)
EmptyBook == [bids |-> {}, asks |-> {}, orders |-> <<>>, seq |-> 0]

\* Python tuple comparison of two heap entries (price_key, seq, order_id, version)
EntryLess(e, f) ==
    \/ e[1] < f[1]
    \/ e[1] = f[1] /\ e[2] < f[2]
    \/ e[1] = f[1] /\ e[2] = f[2] /\ e[3] < f[3]
    \/ e[1] = f[1] /\ e[2] = f[2] /\ e[3] = f[3] /\ e[4] < f[4]

\* heap[0] of a heapq list: its least entry
HeapTop(heap) == CHOOSE e \in heap : \A f \in heap : f = e \/ EntryLess(e, f)

Normalize(b, order) ==
    [order_id |-> order.order_id,
     side     |-> order.side,
     price    |-> order.price,
     qty      |-> order.qty,
     active   |-> TRUE,
     seq      |-> b.seq + 1,
     version  |-> IF order.order_id \in DOMAIN b.orders
                  THEN b.orders[order.order_id].version + 1 ELSE 1]

PushEntryFlat(rec) == <<rec.price, rec.seq, rec.order_id, rec.version>>

PushEntry(rec) ==
    <<IF rec.side = "BUY" THEN -rec.price ELSE rec.price,
      rec.seq, rec.order_id, rec.version>>

Push(b, rec) ==
    IF rec.side = "BUY"
    THEN [b EXCEPT !.bids = @ \cup {PushEntry(rec)}]
    ELSE [b EXCEPT !.asks = @ \cup {PushEntry(rec)}]

StaleIgnoringVersion(b, e, side) ==
    LET oid == e[3]
    IN  \/ oid \notin DOMAIN b.orders
        \/ ~b.orders[oid].active
        \/ b.orders[oid].qty <= 0
        \/ b.orders[oid].side # side

Stale(b, e, side) ==
    LET oid == e[3]
        ver == e[4]
    IN  \/ oid \notin DOMAIN b.orders
        \/ ~b.orders[oid].active
        \/ b.orders[oid].qty <= 0
        \/ b.orders[oid].version # ver
        \/ b.orders[oid].side # side

RECURSIVE PopStale(_, _, _)
PopStale(b, heap, side) ==
    IF heap = {} THEN heap
    ELSE Let(LAMBDA top :
                IF Stale(b, top, side)
                THEN Let(LAMBDA rest : PopStale(b, rest, side), heap \ {top})
                ELSE heap,
             HeapTop(heap))

\* _best: the book with the stale tops popped, and the live top's id (or None)
Best(b, side) ==
    Let(LAMBDA heap :
           [book  |-> IF side = "BUY" THEN [b EXCEPT !.bids = heap]
                                      ELSE [b EXCEPT !.asks = heap],
            oid   |-> IF heap = {} THEN None ELSE HeapTop(heap)[3],
            price |-> IF heap = {} THEN None
                      ELSE b.orders[HeapTop(heap)[3]].price],
        PopStale(b, IF side = "BUY" THEN b.bids ELSE b.asks, side))

CrossesStrict(incoming, resting_price) ==
    IF incoming.side = "BUY"
    THEN incoming.price > resting_price
    ELSE incoming.price < resting_price

Crosses(incoming, resting_price) ==
    IF incoming.side = "BUY"
    THEN incoming.price >= resting_price
    ELSE incoming.price <= resting_price

RecordTrade(buy_id, sell_id, price, qty) ==
    [buy_id |-> buy_id, sell_id |-> sell_id, price |-> price, qty |-> qty]

TradePriceIncoming(incoming, resting) == incoming.price

TradePrice(incoming, resting) == resting.price

TradeQtyOfIncoming(incoming, resting) == incoming.qty

\* trade_qty = min(incoming["qty"], resting["qty"])
TradeQty(incoming, resting) == Min(incoming.qty, resting.qty)

\* one pass of the while loop of _match; acc = [book, trades, fills]
RECURSIVE MatchLoop(_, _)
MatchLoop(acc, inc) ==
    LET b        == acc.book
        incoming == b.orders[inc]
        counter  == IF incoming.side = "BUY" THEN "SELL" ELSE "BUY"
        Pass(best) ==
            IF best.oid = None
            THEN [acc EXCEPT !.book = best.book]
            ELSE IF ~Crosses(incoming, best.price)
            THEN [acc EXCEPT !.book = best.book]
            ELSE LET resting   == b.orders[best.oid]
                     trade_qty == TradeQty(incoming, resting)
                     price     == TradePrice(incoming, resting)
                     o1 == [best.book.orders EXCEPT
                               ![inc].qty = @ - trade_qty,
                               ![best.oid].qty = @ - trade_qty]
                     o2 == IF o1[best.oid].qty <= 0
                           THEN [o1 EXCEPT ![best.oid].active = FALSE]
                           ELSE o1
                     t  == RecordTrade(
                               IF incoming.side = "BUY" THEN inc ELSE best.oid,
                               IF incoming.side = "SELL" THEN inc ELSE best.oid,
                               price, trade_qty)
                 IN  Let(LAMBDA next : MatchLoop(next, inc),
                         [book   |-> [best.book EXCEPT !.orders = o2],
                          trades |-> Append(acc.trades, t),
                          fills  |-> Append(acc.fills,
                                       [incoming |-> inc, resting |-> best.oid,
                                        pre |-> b.orders])])
    IN  IF incoming.qty > 0
        THEN Let(Pass, Best(b, counter))
        ELSE acc

\* _match: the loop, then the incoming order is deactivated when it is used up
Match(b, inc) ==
    Let(LAMBDA r :
           IF r.book.orders[inc].qty <= 0
           THEN [r EXCEPT !.book.orders[inc].active = FALSE]
           ELSE r,
        MatchLoop([book |-> b, trades |-> <<>>, fills |-> <<>>], inc))

\* the result of add_order / modify_order: [book, trades, fills, incoming]
AddOrder(b, order) ==
    LET rec == Normalize(b, order)
        b1  == [b EXCEPT !.seq = @ + 1,
                         !.orders = (rec.order_id :> rec) @@ @]
    IN  Let(LAMBDA pushed : Match(pushed, rec.order_id) @@ [incoming |-> rec],
            Push(b1, rec))

ModifyOrderKeepingSeq(b, order_id, new_qty, new_price) ==
    IF order_id \notin DOMAIN b.orders \/ ~b.orders[order_id].active
    THEN [book |-> b, trades |-> <<>>, fills |-> <<>>, incoming |-> NoRecord]
    ELSE LET r0  == b.orders[order_id]
             rec == [r0 EXCEPT
                        !.qty     = IF new_qty # None THEN new_qty ELSE @,
                        !.price   = IF new_price # None THEN new_price ELSE @,
                        !.version = @ + 1]
             b1  == [b EXCEPT !.orders[order_id] = rec]
         IN  Let(LAMBDA pushed : Match(pushed, order_id) @@ [incoming |-> rec],
                 Push(b1, rec))

ModifyOrder(b, order_id, new_qty, new_price) ==
    IF order_id \notin DOMAIN b.orders \/ ~b.orders[order_id].active
    THEN [book |-> b, trades |-> <<>>, fills |-> <<>>, incoming |-> NoRecord]
    ELSE LET r0  == b.orders[order_id]
             rec == [r0 EXCEPT
                        !.qty     = IF new_qty # None THEN new_qty ELSE @,
                        !.price   = IF new_price # None THEN new_price ELSE @,
                        !.seq     = b.seq + 1,
                        !.version = @ + 1]
             b1  == [b EXCEPT !.seq = @ + 1, !.orders[order_id] = rec]
         IN  Let(LAMBDA pushed : Match(pushed, order_id) @@ [incoming |-> rec],
                 Push(b1, rec))

CancelOrderNoOp(b, order_id) == [book |-> b, ret |-> TRUE]

CancelOrder(b, order_id) ==
    IF order_id \notin DOMAIN b.orders \/ ~b.orders[order_id].active
    THEN [book |-> b, ret |-> FALSE]
    ELSE [book |-> [b EXCEPT !.orders[order_id].active = FALSE,
                             !.orders[order_id].qty = 0,
                             !.orders[order_id].version = @ + 1],
          ret  |-> TRUE]

\* the sum of the quantities of the given orders
RECURSIVE QtySum(_, _)
QtySum(orders, ids) ==
    IF ids = {} THEN 0
    ELSE Let(LAMBDA i : orders[i].qty + QtySum(orders, ids \ {i}),
             CHOOSE i \in ids : TRUE)

\* depth(): the dict bids / asks once the loop over the orders is through,
\* as a set of (price, quantity) pairs
DepthLevels(b, side) ==
    LET ids == {i \in DOMAIN b.orders :
                   /\ ~(~b.orders[i].active \/ b.orders[i].qty <= 0)
                   /\ (b.orders[i].side = "BUY") = (side = "BUY")}
    IN  {<<p, QtySum(b.orders, {i \in ids : b.orders[i].price = p})>> :
            p \in {b.orders[i].price : i \in ids}}

DepthKeyAscending(level, side) == level[1]

\* the sort keys of depth(): -price for bids, price for asks
DepthKey(level, side) == IF side = "BUY" THEN -level[1] ELSE level[1]

\* sorted(...) of the pairs of one side
RECURSIVE SortLevels(_, _)
SortLevels(pairs, side) ==
    IF pairs = {} THEN <<>>
    ELSE Let(LAMBDA first : <<first>> \o SortLevels(pairs \ {first}, side),
             CHOOSE l \in pairs :
                 \A m \in pairs : DepthKey(l, side) <= DepthKey(m, side))

\* depth()
Depth(b) ==
    [bids |-> SortLevels(DepthLevels(b, "BUY"), "BUY"),
     asks |-> SortLevels(DepthLevels(b, "SELL"), "SELL")]

BestBidOfHeapTop(b) == IF b.bids = {} THEN None ELSE -HeapTop(b.bids)[1]

best_bid(b) == Best(b, "BUY").price

best_ask(b) == Best(b, "SELL").price

(***************************************************************************)
(* MatchingEngine (matching_engine.py)                                     *)
(***************************************************************************)
levels == 5

\* tick_size = 0.01: one tick
tick_size == 1

RECURSIVE PopulateFromBase(_, _, _, _, _)
PopulateFromBase(ob, i, base_price, bid_qty, ask_qty) ==
    IF i > levels THEN ob
    ELSE Let(LAMBDA ob1 :
                Let(LAMBDA ob2 : PopulateFromBase(ob2, i + 1, base_price,
                                                  bid_qty, ask_qty),
                    AddOrder(ob1, [order_id |-> 20000 + i, side |-> "SELL",
                                   price |-> base_price + (i - 1) * tick_size,
                                   qty |-> ask_qty[i]]).book),
             AddOrder(ob, [order_id |-> 10000 + i, side |-> "BUY",
                           price |-> base_price - i * tick_size,
                           qty |-> bid_qty[i]]).book)

\* the for loop that populates the synthetic book, from level i on
RECURSIVE Populate(_, _, _, _, _)
Populate(ob, i, base_price, bid_qty, ask_qty) ==
    IF i > levels THEN ob
    ELSE Let(LAMBDA ob1 :
                Let(LAMBDA ob2 : Populate(ob2, i + 1, base_price, bid_qty, ask_qty),
                    AddOrder(ob1, [order_id |-> 20000 + i, side |-> "SELL",
                                   price |-> base_price + i * tick_size,
                                   qty |-> ask_qty[i]]).book),
             AddOrder(ob, [order_id |-> 10000 + i, side |-> "BUY",
                           price |-> base_price - i * tick_size,
                           qty |-> bid_qty[i]]).book)

\* steps 1 and 2: the synthetic book, the incoming order (id 1) and the price
SyntheticFill(order, bid_qty, ask_qty) ==
    Let(LAMBDA ob :
           Let(LAMBDA r :
                  [book   |-> r.book,
                   trades |-> r.trades,
                   fill_price |->
                      IF r.trades # <<>> THEN r.trades[Len(r.trades)].price
                      ELSE IF order.side = "BUY" THEN best_ask(r.book)
                                                 ELSE best_bid(r.book)],
               AddOrder(ob, [order_id |-> 1, side |-> order.side,
                             price |-> order.price, qty |-> order.qty])),
        Populate(EmptyBook, 1, order.price, bid_qty, ask_qty))

PartialAlways(u, order) == u < 7

\* elif u < 0.7 and order.qty > 1 (u in tenths)
PartialBranch(u, order) == u < 7 /\ order.qty > 1

\* step 3: u is random.random() in tenths, partial is randint(1, qty - 1)
Outcome(order, fill_price, u, partial) ==
    IF u < 1
    THEN [status |-> "CANCELLED", qty |-> 0, price |-> None]
    ELSE IF PartialBranch(u, order)
    THEN [status |-> "PARTIAL", qty |-> partial, price |-> fill_price]
    ELSE [status |-> "FILLED", qty |-> order.qty, price |-> fill_price]

SimulateExecution(order, bid_qty, ask_qty, u, partial) ==
    Let(LAMBDA f : Outcome(order, f.fill_price, u, partial) @@
                       [book |-> f.book, trades |-> f.trades],
        SyntheticFill(order, bid_qty, ask_qty))

(***************************************************************************)
(* RiskEngineSim (risk_engine.py)                                          *)
(***************************************************************************)
\* float("inf"), the default of max_total_buy / max_total_sell
Inf == -2

\* x > limit, for a limit that may be float("inf")
Exceeds(x, limit) == limit # Inf /\ x > limit

RiskOrders ==
    [side : Sides, symbol : Symbols, qty : 1..MaxRiskQty, price : RiskPrices,
     ts : {None}, id : {None}]

\* __init__: dict.get(symbol, default) is a total map holding the default
NewRiskEngine(max_order_size, max_position, cash_balance, max_total_buy, max_total_sell) ==
    [max_order_size |-> max_order_size,
     max_position   |-> max_position,
     cash_balance   |-> cash_balance,
     max_total_buy  |-> IF max_total_buy # None THEN max_total_buy ELSE Inf,
     max_total_sell |-> IF max_total_sell # None THEN max_total_sell ELSE Inf,
     positions      |-> [s \in Symbols |-> <<>>],
     buy_totals     |-> [s \in Symbols |-> 0],
     sell_totals    |-> [s \in Symbols |-> 0]]

\* sum(o.qty if o.side == "BUY" else -o.qty for o in positions[symbol])
RECURSIVE SignedSum(_)
SignedSum(os) ==
    IF os = <<>> THEN 0
    ELSE (IF Head(os).side = "BUY" THEN Head(os).qty ELSE -Head(os).qty)
         + SignedSum(Tail(os))

CurrentPos(r, symbol) == SignedSum(r.positions[symbol])

ProspectivePos(r, order) ==
    CurrentPos(r, order.symbol)
        + (IF order.side = "BUY" THEN order.qty ELSE -order.qty)

SizeOk(r, order) == ~(order.qty > r.max_order_size)

PositionOkNoAbs(r, order) == ~(ProspectivePos(r, order) > r.max_position)

PositionOk(r, order) == ~(Abs(ProspectivePos(r, order)) > r.max_position)

TotalsOk(r, order) ==
    IF order.side = "BUY"
    THEN ~Exceeds(r.buy_totals[order.symbol] + order.qty, r.max_total_buy)
    ELSE ~Exceeds(r.sell_totals[order.symbol] + order.qty, r.max_total_sell)

CashOkUnchecked(r, order) == TRUE

CashOkAnySide(r, order) == ~(order.qty * order.price > r.cash_balance)

CashOk(r, order) ==
    ~(order.side = "BUY" /\ order.qty * order.price > r.cash_balance)

\* check: the four constraints in the order of the code, each an early return
Check(r, order) ==
    IF ~SizeOk(r, order) THEN FALSE
    ELSE IF ~PositionOk(r, order) THEN FALSE
    ELSE IF ~TotalsOk(r, order) THEN FALSE
    ELSE IF ~CashOk(r, order) THEN FALSE
    ELSE TRUE

CheckCallReserving(r, order) ==
    [risk |-> IF Check(r, order) /\ order.side = "BUY"
              THEN [r EXCEPT !.cash_balance = @ - order.qty * order.price]
              ELSE r,
     ret  |-> Check(r, order)]

\* one call of check: the engine after it and the value returned; no
\* statement of check assigns to a field of the engine
CheckCall(r, order) == [risk |-> r, ret |-> Check(r, order)]

\* update_position(order, filled_qty); filled_qty = None takes order.qty
UpdatePosition(r, order, filled_qty) ==
    LET qty == IF filled_qty = None THEN order.qty ELSE filled_qty
        sym == order.symbol
    IN  IF qty <= 0 THEN r
        ELSE LET r1 == [r EXCEPT !.positions[sym] =
                            Append(@, [side |-> order.side, symbol |-> sym,
                                       qty |-> qty, price |-> order.price,
                                       ts |-> order.ts, id |-> order.id])]
             IN  IF order.side = "BUY"
                 THEN [r1 EXCEPT !.buy_totals[sym] = @ + qty,
                                 !.cash_balance = @ - qty * order.price]
                 ELSE [r1 EXCEPT !.sell_totals[sym] = @ + qty,
                                 !.cash_balance = @ + qty * order.price]

(***************************************************************************)
(* OrderManagerServer (order_manager.py) and Order.from_dict (order.py)    *)
(***************************************************************************)
OrderFields == {"side", "symbol", "qty", "price", "ts", "id"}

\* str.upper() and str.strip() on the strings the payloads carry
Upper(str) ==
    CASE str = "buy" -> "BUY"
      [] str = "sell" -> "SELL"
      [] str = "hold" -> "HOLD"
      [] str = "abc" -> "ABC"
      [] str = "None" -> "NONE"
      [] OTHER -> str

Strip(str) == IF str = " " THEN "" ELSE str

\* a JSON string that spells no number, in a field that should hold a number
Text == -3

\* NaN, in a payload or in a cell of the data frame, as a number no field
\* or column holds
NaN == -1000

\* decoded JSON objects: fields names the keys present; a number field holds
\* a number, None for null or Text; str(None) is "None", so a null side is
\* carried as that string.  The payloads are the well-formed ones and one
\* well-formed payload with a single key dropped or a single value spoilt
OmPayloads ==
    LET base == [type |-> "object", fields |-> OrderFields, side |-> "buy",
                 symbol |-> "abc", qty |-> 1, price |-> 2, ts |-> 5, id |-> 7]
    IN  [type : {"object"}, fields : {OrderFields, OrderFields \ {"ts", "id"}},
         side : {"buy", "SELL"}, symbol : {"abc"}, qty : 1..MaxOmQty,
         price : {2}, ts : {5}, id : {7}]
        \cup {[base EXCEPT !.fields = OrderFields \ {f}] :
                 f \in {"side", "symbol", "qty", "price"}}
        \cup {[base EXCEPT !.side = v] : v \in {"hold", "None"}}
        \cup {[base EXCEPT !.symbol = " "]}
        \cup {[base EXCEPT !.qty = v] : v \in {0, None, Text}}
        \cup {[base EXCEPT !.price = v] : v \in {0, None, Text}}
        \cup {[base EXCEPT !.ts = v] : v \in {None, Text}}
        \cup {[base EXCEPT !.id = v] : v \in {None, Text}}

\* what json.loads returns for a frame that is valid JSON but no object
OmNonObjects == {[type |-> "number"], [type |-> "array"]}

OmFrames ==
    {[kind |-> "bad_json"]}
        \cup [kind : {"json"}, payload : OmPayloads \cup OmNonObjects]

\* one draw of u per branch of simulate_execution
OmDraws == {0, 5, 9}

Raise(exc, msg) == [ok |-> FALSE, exc |-> exc, msg |-> msg]

\* int(x) and float(x): TypeError on None, ValueError on a string that is
\* no number, the number otherwise (prices and timestamps are whole ticks).
\* float() passes NaN on, as a number or spelt "nan"; int() refuses it
IntOf(x) ==
    CASE x = None -> Raise("TypeError", "int() argument")
      [] x = Text -> Raise("ValueError", "invalid literal")
      [] x = NaN  -> Raise("ValueError", "cannot convert float NaN to integer")
      [] OTHER    -> [ok |-> TRUE, v |-> x]

FloatOf(x) ==
    CASE x = None -> Raise("TypeError", "float() argument")
      [] x = Text -> Raise("ValueError", "could not convert")
      [] OTHER    -> [ok |-> TRUE, v |-> x]

\* ts = None if "ts" not in d else float(d["ts"]), and id alike: the
\* conversion is not inside a try block
OptionalOf(converted, d, field) ==
    IF field \notin d.fields THEN [ok |-> TRUE, v |-> None] ELSE converted

\* price <= 0.0: every comparison with NaN is False
NotPositive(x) == x # NaN /\ x <= 0

\* Order.from_dict: the order, or the exception it raises
FromDict(d) ==
    IF d.type = "number"
    THEN Raise("TypeError", "argument is not iterable")
    ELSE IF d.type = "array"
    THEN Raise("ValueError", "missing field")
    ELSE IF ~({"side", "symbol", "qty", "price"} \subseteq d.fields)
    THEN Raise("ValueError", "missing field")
    ELSE IF Upper(d.side) \notin {"BUY", "SELL"}
    THEN Raise("ValueError", "side must be BUY or SELL")
    ELSE IF Strip(Upper(d.symbol)) = ""
    THEN Raise("ValueError", "symbol must be non-empty")
    ELSE IF ~IntOf(d.qty).ok
    THEN Raise("ValueError", "qty must be an integer")
    ELSE IF IntOf(d.qty).v <= 0
    THEN Raise("ValueError", "qty must be > 0")
    ELSE IF ~FloatOf(d.price).ok
    THEN Raise("ValueError", "price must be a float")
    ELSE IF NotPositive(FloatOf(d.price).v)
    THEN Raise("ValueError", "price must be > 0")
    ELSE
    LET ts  == OptionalOf(FloatOf(d.ts), d, "ts")
        oid == OptionalOf(IntOf(d.id), d, "id")
    IN  IF ~ts.ok THEN ts
        ELSE IF ~oid.ok THEN oid
        ELSE [ok |-> TRUE,
              order |-> [side |-> Upper(d.side),
                         symbol |-> Strip(Upper(d.symbol)),
                         qty |-> IntOf(d.qty).v, price |-> FloatOf(d.price).v,
                         ts |-> ts.v, id |-> oid.v]]

\* dataclasses.asdict(order): every field is a key, an unset one holds None
AsDict(order) ==
    [type |-> "object", fields |-> OrderFields,
     side |-> order.side, symbol |-> order.symbol, qty |-> order.qty,
     price |-> order.price, ts |-> order.ts, id |-> order.id]

NoOrder == [id |-> None]

OmLogEntry(ack, order, update_qty, status, filled_qty) ==
    [ack |-> ack, order |-> order, update_qty |-> update_qty,
     status |-> status, filled_qty |-> filled_qty]

RejectedAfterUpdate(o, r, order) ==
    [om |-> o, risk |-> UpdatePosition(r, order, None),
     log |-> OmLogEntry("rejected", order, None, "none", 0)]

\* _process_order_frame, the else branch of the risk check: log, ack with
\* ok False, return
Rejected(o, r, order) ==
    [om |-> o, risk |-> r,
     log |-> OmLogEntry("rejected", order, None, "none", 0)]

\* the exceptions _process_order_frame catches around Order.from_dict
Caught == {"ValueError"}

AssignIdNoAdvance(o, order) == [om |-> o, order |-> [order EXCEPT !.id = o.next_id]]

\* _process_order_frame: if order.id is None, under _order_id_lock,
\* order.id = next(self._order_id_counter)
AssignId(o, order) ==
    IF order.id # None THEN [om |-> o, order |-> order]
    ELSE [om |-> [o EXCEPT !.next_id = @ + 1],
          order |-> [order EXCEPT !.id = o.next_id]]

\* _process_order_frame: the manager, the risk engine and the log entry after
\* one frame; depth, u and partial are the draws of simulate_execution.  The
\* entry "raised" stands for an exception that leaves the method: no ack was
\* sent
ProcessOrderFrame(o, r, frame, depth, u, partial) ==
    IF frame.kind = "bad_json"
    THEN [om |-> o, risk |-> r,
          log |-> OmLogEntry("bad_json", NoOrder, None, "none", 0)]
    ELSE
    LET parsed == FromDict(frame.payload) IN
    IF ~parsed.ok /\ parsed.exc \in Caught
    THEN [om |-> o, risk |-> r,
          log |-> OmLogEntry("invalid", NoOrder, None, "none", 0)]
    ELSE IF ~parsed.ok
    THEN [om |-> o, risk |-> r,
          log |-> OmLogEntry("raised", NoOrder, None, "none", 0)]
    ELSE
    LET order == AssignId(o, parsed.order).order
        o1 == AssignId(o, parsed.order).om
    IN
    IF ~Check(r, order)
    THEN Rejected(o1, r, order)
    ELSE
    Let(LAMBDA response :
           [om   |-> IF response.status \in {"PARTIAL", "FILLED"}
                     THEN [o1 EXCEPT !.orders = Append(@, order)]
                     ELSE o1,
            risk |-> UpdatePosition(r, order, None),
            log  |-> OmLogEntry("ok", order, order.qty,
                                response.status, response.qty)],
        SimulateExecution(order, [i \in 1..levels |-> depth],
                          [i \in 1..levels |-> depth], u, partial))

(***************************************************************************)
(* MAStrategy, MomentumStrategy, StatisticalSignalStrategy (strategy.py)   *)
(***************************************************************************)
\* pd.isna on a cell of the data frame
IsNa(x) == x = NaN

NoSignal == [signal |-> "NONE"]

Signal(type, index, row) ==
    [signal |-> type, timestamp |-> index, price |-> row.Close]

\* data.iloc[index] (Python rows count from 0)
Row(self, index) == self.data[index + 1]

MABuyAnyPosition(self, prev_row, curr_row) ==
    /\ prev_row.MA_20 <= prev_row.MA_50
    /\ curr_row.MA_20 > curr_row.MA_50

MABuy(self, prev_row, curr_row) ==
    /\ prev_row.MA_20 <= prev_row.MA_50
    /\ curr_row.MA_20 > curr_row.MA_50
    /\ self.position = 0

MASell(self, prev_row, curr_row) ==
    /\ prev_row.MA_20 >= prev_row.MA_50
    /\ curr_row.MA_20 < curr_row.MA_50
    /\ self.position = 1

\* MAStrategy: the signal type the rows at index - 1 and index give
MADecide(self, prev_row, curr_row) ==
    IF \/ IsNa(prev_row.MA_20) \/ IsNa(prev_row.MA_50)
       \/ IsNa(curr_row.MA_20) \/ IsNa(curr_row.MA_50)
    THEN "NONE"
    ELSE IF MABuy(self, prev_row, curr_row) THEN "BUY"
    ELSE IF MASell(self, prev_row, curr_row) THEN "SELL"
    ELSE "NONE"

\* a NaN cell of a computed column, as a quotient <<n, d>> no division gives
FracNaN == <<0, 0>>

FracIsNa(x) == x[2] = 0

\* x < y, for quotients with positive denominators
FracLess(x, y) == x[1] * y[2] < y[1] * x[2]

\* MomentumStrategy.load_data: Momentum = Close.pct_change(momentum_window),
\* NaN in the first momentum_window rows; Returns is a column of the file
LoadMomentum(closes, returns, w) ==
    [i \in 1..Len(closes) |->
        [Momentum |-> IF i <= w THEN FracNaN
                      ELSE <<closes[i] - closes[i - w], closes[i - w]>>,
         Returns  |-> returns[i],
         Close    |-> closes[i]]]

MomentumBuy(self, prev_row, curr_row) ==
    /\ ~FracLess(self.threshold, prev_row.Momentum)
    /\ FracLess(self.threshold, curr_row.Momentum)
    /\ curr_row.Returns > 0
    /\ self.position = 0

MomentumSell(self, prev_row, curr_row) ==
    /\ FracLess(curr_row.Momentum, <<-self.threshold[1], self.threshold[2]>>)
    /\ self.position = 1

\* MomentumStrategy
MomentumDecide(self, prev_row, curr_row) ==
    IF \/ FracIsNa(prev_row.Momentum) \/ FracIsNa(curr_row.Momentum)
       \/ IsNa(curr_row.Returns)
    THEN "NONE"
    ELSE IF MomentumBuy(self, prev_row, curr_row) THEN "BUY"
    ELSE IF MomentumSell(self, prev_row, curr_row) THEN "SELL"
    ELSE "NONE"

\* the sum of the k closes that end at row i
RECURSIVE WindowSum(_, _, _)
WindowSum(closes, i, k) ==
    IF k = 0 THEN 0 ELSE closes[i] + WindowSum(closes, i - 1, k - 1)

\* StatisticalSignalStrategy.load_data: Z_Score = (Close - rolling mean) /
\* rolling std, std being the sample deviation (ddof = 1).  With
\* d(j) = w * close[j] - sum of the window, mean = sum / w and
\* std = sqrt(ss / (w * w * (w - 1))) for ss the sum of d(j)^2, so
\* Z_Score = num * sqrt(w - 1) / sqrt(ss) with num = d(i); the cell keeps num,
\* ss and w.  It is NaN while the window is not full, for a window of one row
\* and for std = 0, where Close - mean is 0 as well; ss = 0 marks NaN
LoadZScore(closes, w) ==
    [i \in 1..Len(closes) |->
        [Z_Score |->
            IF i < w \/ w = 1 THEN [num |-> 0, ss |-> 0, w |-> w]
            ELSE LET sum  == WindowSum(closes, i, w)
                     d(j) == w * closes[j] - sum
                     RECURSIVE SumSq(_)
                     SumSq(k) == IF k = 0 THEN 0
                                 ELSE d(i - k + 1) * d(i - k + 1) + SumSq(k - 1)
                 IN  [num |-> d(i), ss |-> SumSq(w), w |-> w],
         Close |-> closes[i]]]

ZIsNa(z) == z.ss = 0

\* z < -t, for a threshold t = <<p, q>> that is not negative
ZBelow(z, t) ==
    /\ z.num < 0
    /\ z.num * z.num * (z.w - 1) * t[2] * t[2] > t[1] * t[1] * z.ss

ZScoreBuy(self, prev_row, curr_row) ==
    /\ ZBelow(curr_row.Z_Score, self.threshold)
    /\ self.position = 0

ZScoreSell(self, prev_row, curr_row) ==
    /\ self.position = 1
    /\ prev_row.Z_Score.num < 0
    /\ curr_row.Z_Score.num >= 0

\* StatisticalSignalStrategy
ZScoreDecide(self, prev_row, curr_row) ==
    IF ZIsNa(prev_row.Z_Score) \/ ZIsNa(curr_row.Z_Score)
    THEN "NONE"
    ELSE IF ZScoreBuy(self, prev_row, curr_row) THEN "BUY"
    ELSE IF ZScoreSell(self, prev_row, curr_row) THEN "SELL"
    ELSE "NONE"

Decide(self, index) ==
    CASE self.class = "MA" -> MADecide(self, Row(self, index - 1), Row(self, index))
      [] self.class = "Momentum" ->
             MomentumDecide(self, Row(self, index - 1), Row(self, index))
      [] self.class = "ZScore" ->
             ZScoreDecide(self, Row(self, index - 1), Row(self, index))

\* the position after a signal of the given type
Positioned(self, type) ==
    IF type = "BUY" THEN [self EXCEPT !.position = 1]
    ELSE IF type = "SELL" THEN [self EXCEPT !.position = 0]
    ELSE self

\* the least index get_signal_at_index answers: 1, momentum_window or
\* lookback_window
FirstIndex(self) == IF self.class = "MA" THEN 1 ELSE self.window

\* get_signal_at_index: [self, ret, out], out being what the call emitted
GetSignalAtIndex(self, index) ==
    IF index < FirstIndex(self) \/ index >= Len(self.data)
    THEN [self |-> self, ret |-> NoSignal, out |-> <<>>]
    ELSE Let(LAMBDA type :
                IF type = "NONE"
                THEN [self |-> self, ret |-> NoSignal, out |-> <<>>]
                ELSE [self |-> Positioned(self, type),
                      ret  |-> Signal(type, index, Row(self, index)),
                      out  |-> <<[signal |-> type, position |-> self.position]>>],
             Decide(self, index))

\* the loop of generate_signals from row i on; acc = [self, out]
RECURSIVE GenerateLoop(_, _)
GenerateLoop(acc, i) ==
    IF i >= Len(acc.self.data) THEN acc
    ELSE Let(LAMBDA type :
                IF type = "NONE" THEN GenerateLoop(acc, i + 1)
                ELSE Let(LAMBDA next : GenerateLoop(next, i + 1),
                         [self |-> [Positioned(acc.self, type) EXCEPT
                                       !.signals = Append(@,
                                           Signal(type, i, Row(acc.self, i)))],
                          out  |-> Append(acc.out,
                                      [signal |-> type,
                                       position |-> acc.self.position])]),
             Decide(acc.self, i))

\* generate_signals: an empty frame raises ValueError before anything is set
GenerateSignals(self) ==
    IF Len(self.data) = 0 THEN [self |-> self, out |-> <<>>]
    ELSE GenerateLoop([self |-> [self EXCEPT !.signals = <<>>], out |-> <<>>], 1)

(***************************************************************************)
(* Backtester (backtester.py).  Money is exact: avg_entry_price and        *)
(* realized_pnl are fractions <<numerator, denominator>> in lowest terms.  *)
(***************************************************************************)
RECURSIVE GCD(_, _)
GCD(a, b) == IF b = 0 THEN a ELSE GCD(b, a % b)

Frac(n, d) == Let(LAMBDA g : <<n \div g, d \div g>>, GCD(Abs(n), d))

FracOf(k) == <<k, 1>>

FracAdd(x, y) == Frac(x[1] * y[2] + y[1] * x[2], x[2] * y[2])

FracSub(x, y) == Frac(x[1] * y[2] - y[1] * x[2], x[2] * y[2])

FracTimes(x, k) == Frac(x[1] * k, x[2])

FracOver(x, k) == Frac(x[1], x[2] * k)

\* strategy.on_new_bar(mdp): a BUY only at position 0, a SELL only at
\* position 1, priced at the bar; fire says whether the bar triggers it
OnNewBar(position, mdp, fire) ==
    IF ~fire THEN [position |-> position, signal |-> NoSignal]
    ELSE IF position = 0
    THEN [position |-> 1,
          signal |-> [signal |-> "BUY", timestamp |-> mdp.timestamp,
                      symbol |-> mdp.symbol, price |-> mdp.price]]
    ELSE [position |-> 0,
          signal |-> [signal |-> "SELL", timestamp |-> mdp.timestamp,
                      symbol |-> mdp.symbol, price |-> mdp.price]]

\* a key the result dict does not hold, read as a string
Absent == ""

OmResult(ok, status, order, filled_qty, filled_price, msg) ==
    [ok |-> ok, status |-> status, order |-> order,
     filled_qty |-> filled_qty, filled_price |-> filled_price, msg |-> msg]

\* the header row of the audit CSV
AuditHeader == [kind |-> "header"]

\* one data row of the audit CSV (event_time, the wall clock, left out)
AuditRow(order, event_type, status, filled_qty, filled_price, note) ==
    [kind |-> "row", event_type |-> event_type, id |-> order.id,
     side |-> order.side, symbol |-> order.symbol, qty |-> order.qty,
     price |-> order.price, ts |-> order.ts, status |-> status,
     filled_qty |-> filled_qty, filled_price |-> filled_price, note |-> note]

LogOrderEventHeaderEachTime(file, order, event_type, status, filled_qty, filled_price, note) ==
    file \o <<AuditHeader,
              AuditRow(order, event_type, status, filled_qty, filled_price, note)>>

\* log_order_event: append the row, after the header when the file does not
\* exist yet (<<>>)
LogOrderEvent(file, order, event_type, status, filled_qty, filled_price, note) ==
    LET row == AuditRow(order, event_type, status, filled_qty, filled_price, note)
    IN  IF file = <<>> THEN <<AuditHeader, row>> ELSE Append(file, row)

\* the audit event_type of an execution status
TerminalEvent(status) ==
    CASE status = "FILLED" -> "filled"
      [] status = "PARTIAL" -> "partial"
      [] OTHER -> "cancelled"

\* OrderManager.process_order(order), simulated: validate, stamp the id,
\* audit sent, risk.check, simulate_execution, update_position with the
\* filled qty on a fill, append to orders on a fill, audit the outcome
ProcessOrder(o, r, file, order, depth, u, partial) ==
    IF order.side \notin {"BUY", "SELL"} \/ order.qty <= 0 \/ order.price <= 0
    THEN [om |-> o, risk |-> r, audit |-> file,
          result |-> OmResult(FALSE, Absent, NoOrder, 0, None, "invalid")]
    ELSE
    LET stamped == IF order.id = None THEN [order EXCEPT !.id = o.next_id]
                   ELSE order
        o1 == IF order.id = None THEN [o EXCEPT !.next_id = @ + 1] ELSE o
        sent == LogOrderEvent(file, stamped, "sent", Absent, None, None, Absent)
    IN
    IF ~Check(r, stamped)
    THEN [om |-> o1, risk |-> r,
          audit |-> LogOrderEvent(sent, stamped, "rejected", Absent, None,
                                  None, "risk_check_failed"),
          result |-> OmResult(FALSE, Absent, stamped, 0, None,
                              "risk_check_failed")]
    ELSE
    Let(LAMBDA response :
           IF response.status \in {"FILLED", "PARTIAL"} /\ response.qty > 0
           THEN [om |-> [o1 EXCEPT !.orders = Append(@, stamped)],
                 risk |-> UpdatePosition(r, stamped, response.qty),
                 audit |-> LogOrderEvent(sent, stamped,
                                         TerminalEvent(response.status),
                                         response.status, response.qty,
                                         response.price, Absent),
                 result |-> OmResult(TRUE, response.status, stamped,
                                     response.qty, response.price, Absent)]
           ELSE [om |-> o1, risk |-> r,
                 audit |-> LogOrderEvent(sent, stamped,
                                         TerminalEvent(response.status),
                                         response.status, response.qty,
                                         response.price, Absent),
                 result |-> OmResult(TRUE, response.status, stamped,
                                     response.qty, response.price, Absent)],
        SimulateExecution(stamped, [i \in 1..levels |-> depth],
                          [i \in 1..levels |-> depth], u, partial))

\* __init__: the accounting state over the given market data
NewBacktester(initial_capital, position_size, risk_initial_cash, data) ==
    [initial_capital |-> initial_capital, position_size |-> position_size,
     symbol |-> "ABC", risk_initial_cash |-> risk_initial_cash, data |-> data, pc |-> "idle", i |-> 0, runs |-> 0, strategy_position |-> 0,
     trade_log |-> <<>>, completed_trades |-> <<>>, equity_curve |-> <<>>,
     cash |-> initial_capital, position |-> 0, avg_entry_price |-> FracOf(0),
     realized_pnl |-> FracOf(0), open_trade_start |-> None, last_price |-> None]

\* _reset_state, for the backtester's own fields
ResetState(b) ==
    [b EXCEPT !.trade_log = <<>>, !.completed_trades = <<>>,
              !.equity_curve = <<>>, !.cash = b.initial_capital,
              !.position = 0, !.avg_entry_price = FracOf(0),
              !.realized_pnl = FracOf(0), !.open_trade_start = None,
              !.last_price = None]

\* _reset_state, for the risk engine
ResetRisk(r, risk_initial_cash) ==
    [r EXCEPT !.positions = [s \in Symbols |-> <<>>],
              !.buy_totals = [s \in Symbols |-> 0],
              !.sell_totals = [s \in Symbols |-> 0],
              !.cash_balance = risk_initial_cash]

\* _mark_to_market
MarkToMarket(b, timestamp, price) ==
    [b EXCEPT !.last_price = price,
              !.equity_curve = Append(@, [timestamp |-> timestamp,
                                          equity |-> b.cash + b.position * price])]

\* _record_trade_event
RecordTradeEvent(b, signal, status, filled_qty, filled_price, order) ==
    [b EXCEPT !.trade_log = Append(@,
        [timestamp |-> signal.timestamp, signal |-> signal.signal,
         status |-> status, qty |-> filled_qty, price |-> filled_price,
         order_id |-> order.id])]

HandleFillUncapped(b, timestamp, side, qty, price) ==
    IF qty <= 0 THEN b
    ELSE IF side = "BUY"
    THEN LET total_qty == b.position + qty
             weighted_cost == FracAdd(FracTimes(b.avg_entry_price, b.position),
                                      FracOf(price * qty))
         IN  [b EXCEPT
                !.open_trade_start = IF b.position = 0 THEN timestamp ELSE @,
                !.avg_entry_price = IF total_qty > 0
                                    THEN FracOver(weighted_cost, total_qty) ELSE @,
                !.position = total_qty,
                !.cash = @ - qty * price]
    ELSE LET pnl == FracTimes(FracSub(FracOf(price), b.avg_entry_price), qty)
             trade == [entry_time |-> IF b.open_trade_start # None
                                      THEN b.open_trade_start ELSE timestamp,
                       exit_time |-> timestamp, qty |-> qty,
                       entry_price |-> b.avg_entry_price,
                       exit_price |-> price, pnl |-> pnl]
         IN  [b EXCEPT
                 !.cash = @ + qty * price,
                 !.realized_pnl = FracAdd(@, pnl),
                 !.position = @ - qty,
                 !.completed_trades = Append(@, trade),
                 !.avg_entry_price =
                     IF b.position - qty = 0 THEN FracOf(0) ELSE @,
                 !.open_trade_start =
                     IF b.position - qty = 0 THEN None ELSE @]

WeightedEntryLastPrice(b, qty, price) == FracOf(price)

\* weighted_cost / total_qty of a BUY fill
WeightedEntry(b, qty, price) ==
    FracOver(FracAdd(FracTimes(b.avg_entry_price, b.position),
                     FracOf(price * qty)),
             b.position + qty)

\* _handle_fill
HandleFill(b, timestamp, side, qty, price) ==
    IF qty <= 0 THEN b
    ELSE IF side = "BUY"
    THEN LET total_qty == b.position + qty
         IN  [b EXCEPT
                !.open_trade_start = IF b.position = 0 THEN timestamp ELSE @,
                !.avg_entry_price = IF total_qty > 0
                                    THEN WeightedEntry(b, qty, price) ELSE @,
                !.position = total_qty,
                !.cash = @ - qty * price]
    ELSE LET close_qty == Min(qty, b.position)
             pnl == FracTimes(FracSub(FracOf(price), b.avg_entry_price), close_qty)
             trade == [entry_time |-> IF b.open_trade_start # None
                                      THEN b.open_trade_start ELSE timestamp,
                       exit_time |-> timestamp, qty |-> close_qty,
                       entry_price |-> b.avg_entry_price,
                       exit_price |-> price, pnl |-> pnl]
         IN  IF close_qty = 0 THEN b
             ELSE [b EXCEPT
                     !.cash = @ + close_qty * price,
                     !.realized_pnl = FracAdd(@, pnl),
                     !.position = @ - close_qty,
                     !.completed_trades = Append(@, trade),
                     !.avg_entry_price =
                         IF b.position - close_qty = 0 THEN FracOf(0) ELSE @,
                     !.open_trade_start =
                         IF b.position - close_qty = 0 THEN None ELSE @]

\* one pass of the for loop of run(), over bar b.i; fire, depth, u and partial
\* are what the strategy and simulate_execution draw
RunBar(b, o, r, file, fire, depth, u, partial) ==
    LET mdp == b.data[b.i + 1]
        b0  == [b EXCEPT !.i = @ + 1]
    IN
    IF mdp.symbol # b.symbol THEN [bt |-> b0, om |-> o, risk |-> r, audit |-> file]
    ELSE
    LET b1  == MarkToMarket(b0, mdp.timestamp, mdp.price)
        s   == OnNewBar(b.strategy_position, mdp, fire)
        b2  == [b1 EXCEPT !.strategy_position = s.position]
        signal == s.signal
    IN
    IF signal = NoSignal THEN [bt |-> b2, om |-> o, risk |-> r, audit |-> file]
    ELSE
    Let(LAMBDA res :
           LET result == res.result
               status == IF result.status # Absent THEN result.status
                         ELSE IF result.msg # Absent THEN result.msg
                         ELSE "FAILED"
               b3 == RecordTradeEvent(b2, signal, status, result.filled_qty,
                                      result.filled_price, result.order)
           IN  IF ~result.ok \/ status = "CANCELLED"
               THEN [bt |-> b3, om |-> res.om, risk |-> res.risk,
                     audit |-> res.audit]
               ELSE IF status \in {"FILLED", "PARTIAL"}
               THEN [bt |-> HandleFill(b3, signal.timestamp, signal.signal,
                                       result.filled_qty,
                                       IF result.filled_price # None
                                       THEN result.filled_price
                                       ELSE signal.price),
                     om |-> res.om, risk |-> res.risk,
                     audit |-> res.audit]
               ELSE [bt |-> b3, om |-> res.om, risk |-> res.risk,
                     audit |-> res.audit],
        ProcessOrder(o, r, file,
                     [side |-> signal.signal, symbol |-> signal.symbol,
                      qty |-> b.position_size, price |-> signal.price,
                      ts |-> None, id |-> None],
                     depth, u, partial))

\* the dict without keys that compute_performance_metrics returns for an
\* empty equity curve: no metric is in it
NoMetrics == [final_equity |-> None]

\* compute_performance_metrics: the figures that are sums and counts
ComputePerformanceMetrics(b) ==
    IF b.equity_curve = <<>> THEN NoMetrics
    ELSE Let(LAMBDA final_equity :
                [final_equity |-> final_equity,
                 total_pnl    |-> final_equity - b.initial_capital,
                 num_trades   |-> Len(b.completed_trades),
                 realized_pnl |-> b.realized_pnl],
             b.equity_curve[Len(b.equity_curve)].equity)

(***************************************************************************)
(* OrderBook calls as actions                                              *)
(***************************************************************************)
BookIdle ==
    /\ book = EmptyBook
    /\ trades = <<>>
    /\ fills = <<>>
    /\ admitted = NoRecord

MeIdle ==
    /\ meIn = [pc |-> "idle"]
    /\ meOut = [status |-> "idle"]

RiskIdle ==
    /\ risk = NewRiskEngine(0, 0, 0, None, None)
    /\ riskRet = [ret |-> FALSE]

OmIdle ==
    /\ om = [orders |-> <<>>, next_id |-> 1]
    /\ omLog = [ack |-> "idle"]
    /\ omHist = [frames |-> 0]
    /\ conn = [open |-> TRUE, acks |-> 0]
    /\ audit = <<>>
    /\ poRet = [calls |-> 0]

ConvIdle == conv = [pc |-> "idle"]

MtIdle == mt = [threads |-> <<>>, cash0 |-> 0]

\* the class before any construction: _instance is None
NoInstance ==
    [instance |-> FALSE, initialized |-> FALSE, attrs |-> {},
     engine |-> NewRiskEngine(0, 0, 0, None, None)]

SingleIdle == single = [class |-> NoInstance, bodies |-> 0, calls |-> 0,
                        threads |-> <<>>]

NewStrategy(class, window, threshold, data) ==
    [class |-> class, window |-> window, threshold |-> threshold,
     data |-> data, signals |-> <<>>, position |-> 0]

StratIdle ==
    /\ strat = NewStrategy("MA", 1, 0, <<>>)
    /\ stratRet = NoSignal
    /\ emitted = <<>>

BtIdle ==
    /\ bt = NewBacktester(0, 1, 0, <<>>)
    /\ btRet = NoMetrics
    /\ btHist = [draws |-> <<>>, runs |-> <<>>]

BookInit ==
    /\ BookIdle
    /\ MeIdle
    /\ RiskIdle
    /\ OmIdle
    /\ StratIdle
    /\ BtIdle
    /\ ConvIdle
    /\ MtIdle
    /\ SingleIdle

add_order ==
    \E id \in OrderIds, s \in Sides, p \in BookPrices, q \in BookQtys :
        \E r \in {AddOrder(book, [order_id |-> id, side |-> s,
                                    price |-> p, qty |-> q])} :
            /\ book.seq < MaxSeq
            /\ book' = r.book
            /\ trades' = r.trades
            /\ fills' = r.fills
            /\ admitted' = r.incoming
            /\ UNCHANGED offBook

modify_order ==
    \E id \in OrderIds, q \in BookQtys \cup {None}, p \in BookPrices \cup {None} :
        \E r \in {ModifyOrder(book, id, q, p)} :
            /\ book.seq < MaxSeq
            /\ book' = r.book
            /\ trades' = r.trades
            /\ fills' = r.fills
            /\ admitted' = r.incoming
            /\ UNCHANGED offBook

cancel_order ==
    \E id \in OrderIds :
        /\ book' = CancelOrder(book, id).book
        /\ UNCHANGED <<trades, fills, admitted, offBook>>

\* best_bid() / best_ask(): the call pops the stale tops of the heap it peeks
peek ==
    \E s \in Sides :
        /\ book' = Best(book, s).book
        /\ UNCHANGED <<trades, fills, admitted, offBook>>

BookNext == add_order \/ modify_order \/ cancel_order \/ peek

SpecBook == BookInit /\ [][BookNext]_vars

(***************************************************************************)
(* Claims about the OrderBook                                              *)
(***************************************************************************)
Live(rec) == rec.active /\ rec.qty > 0

\* C1: whenever best_bid() and best_ask() both return a price, the bid is
\* strictly below the ask: the resting book is never crossed or locked.
C1_NoCrossedBook ==
    (best_bid(book) # None /\ best_ask(book) # None)
        => best_bid(book) < best_ask(book)

\* a two-sided book left by a call that traded
C1_Witness ==
    /\ best_bid(book) # None
    /\ best_ask(book) # None
    /\ trades # <<>>

\* o has priority over r on the same side of the book
Ahead(o, r) ==
    \/ IF r.side = "SELL" THEN o.price < r.price ELSE o.price > r.price
    \/ o.price = r.price /\ o.seq < r.seq

\* C2: price-time priority.  Every fill of the last call was against an
\* order of the opposite side, and when it was made no other live order of
\* that side had a strictly better price, or the same price and a smaller seq.
C2_PriceTimePriority ==
    \A i \in 1..Len(fills) :
        LET pre == fills[i].pre
            r   == pre[fills[i].resting]
        IN  /\ r.side # pre[fills[i].incoming].side
            /\ Live(r)
            /\ \A id \in DOMAIN pre :
                   (id # r.order_id /\ Live(pre[id]) /\ pre[id].side = r.side)
                       => ~Ahead(pre[id], r)

\* a fill made while a later order rested at the same price on the same side
C2_Witness ==
    \E i \in 1..Len(fills) :
        LET pre == fills[i].pre
            r   == pre[fills[i].resting]
        IN  \E id \in DOMAIN pre :
                /\ id # r.order_id
                /\ Live(pre[id])
                /\ pre[id].side = r.side
                /\ pre[id].price = r.price
                /\ pre[id].seq > r.seq

\* the orders map after the i-th fill of a call that ended with orders map o
AfterFill(fs, i, o) == IF i < Len(fs) THEN fs[i + 1].pre ELSE o

TradeOk(t, f, post) ==
    LET inc == f.pre[f.incoming]
        r   == f.pre[f.resting]
    IN  /\ t.qty = Min(inc.qty, r.qty)
        /\ t.price = r.price
        /\ {t.buy_id, t.sell_id} = {f.incoming, f.resting}
        /\ f.pre[t.buy_id].side = "BUY"
        /\ f.pre[t.sell_id].side = "SELL"
        /\ post[f.incoming].qty = inc.qty - t.qty
        /\ post[f.resting].qty = r.qty - t.qty

BuyTenAtHundred ==
    [order_id |-> 1, side |-> "BUY", price |-> 100, qty |-> 10,
     active |-> TRUE, seq |-> 1, version |-> 1]

SellFourAtNinetyNine ==
    [order_id |-> 2, side |-> "SELL", price |-> 99, qty |-> 4,
     active |-> TRUE, seq |-> 2, version |-> 1]

\* C3: every trade of an add_order / modify_order call has qty = min(incoming
\* remaining, resting qty) and the resting order's price, names the BUY side
\* as buy_id and the SELL side as sell_id, and both quantities drop by the
\* trade qty; adding SELL(2, 4 @ 99) to a book holding only BUY(1, 10 @ 100)
\* returns the single trade {1, 2, 100, 4} and leaves the BUY with qty 6.
C3_TradeShape ==
    [][book'.seq # book.seq =>
        /\ Len(fills') = Len(trades')
        /\ \A i \in 1..Len(trades') :
               /\ fills'[i].incoming = admitted'.order_id
               /\ TradeOk(trades'[i], fills'[i], AfterFill(fills', i, book'.orders))
        /\ (book.orders = (1 :> BuyTenAtHundred) /\ admitted' = SellFourAtNinetyNine)
               => /\ trades' = <<RecordTrade(1, 2, 100, 4)>>
                  /\ book'.orders[1].qty = 6
                  /\ book'.orders[1].active]_vars

\* the heap of one side
HeapOf(b, side) == IF side = "BUY" THEN b.bids ELSE b.asks

\* C16: each live order record (active, qty > 0) has exactly one entry in the
\* heap of its side whose version is the record's version, and that entry's
\* price key and seq are the record's; every other entry of that id is a
\* tombstone, and what best_bid / best_ask return and what a fill is made
\* against is a live record reached through its own entry, never a tombstone.
C16_OneLiveEntry ==
    /\ \A oid \in DOMAIN book.orders :
           LET rec == book.orders[oid]
           IN  Live(rec) =>
                   {e \in HeapOf(book, rec.side) :
                        e[3] = oid /\ e[4] = rec.version} = {PushEntry(rec)}
    /\ \A side \in Sides :
           \E best \in {Best(book, side)} :
               best.oid # None =>
                   /\ Live(book.orders[best.oid])
                   /\ book.orders[best.oid].side = side
                   /\ HeapTop(HeapOf(best.book, side))
                          = PushEntry(book.orders[best.oid])
    /\ \A i \in 1..Len(fills) : Live(fills[i].pre[fills[i].resting])

\* a live order whose heap also holds a tombstone of it, left by a call that
\* traded
C16_Witness ==
    /\ trades # <<>>
    /\ \E oid \in DOMAIN book.orders :
           /\ Live(book.orders[oid])
           /\ \E e \in HeapOf(book, book.orders[oid].side) :
                  e[3] = oid /\ e[4] # book.orders[oid].version

\* what depth() owes for one side: one pair per price at which an active
\* order with qty > 0 of that side rests, with the sum of their quantities,
\* best price first
DepthOk(b, pairs, side) ==
    LET at(p) == {i \in DOMAIN b.orders :
                     /\ b.orders[i].active /\ b.orders[i].qty > 0
                     /\ b.orders[i].side = side /\ b.orders[i].price = p}
    IN  /\ {pairs[k][1] : k \in 1..Len(pairs)}
               = {p \in BookPrices : at(p) # {}}
        /\ \A k \in 1..Len(pairs) :
               pairs[k][2] = QtySum(b.orders, at(pairs[k][1]))
        /\ \A k \in 1..(Len(pairs) - 1) :
               IF side = "BUY" THEN pairs[k][1] > pairs[k + 1][1]
                               ELSE pairs[k][1] < pairs[k + 1][1]

\* the quantity the trades of one call filled
RECURSIVE TradedQty(_)
TradedQty(ts) == IF ts = <<>> THEN 0 ELSE Head(ts).qty + TradedQty(Tail(ts))

\* C26: when add_order returns (and modify_order of an active order alike),
\* the incoming order is live in the book iff quantity of it is left
\* unfilled; it then rests on its own side, through a heap entry of its
\* version, with exactly the quantity left; and depth() lists per side the
\* live quantity summed per price, bids by descending and asks by ascending
\* price.
C26_RestsWithRemainder ==
    [][book'.seq # book.seq =>
        LET inc  == admitted'
            rec  == book'.orders[inc.order_id]
            left == inc.qty - TradedQty(trades')
        IN  /\ (rec.active /\ rec.qty > 0) <=> left > 0
            /\ left > 0 =>
                   /\ rec.qty = left
                   /\ rec.side = inc.side
                   /\ rec.price = inc.price
                   /\ PushEntry(rec) \in HeapOf(book', inc.side)
            /\ DepthOk(book', Depth(book').bids, "BUY")
            /\ DepthOk(book', Depth(book').asks, "SELL")]_vars

\* BUY 4 @ 100 then SELL 10 @ 100: one trade of 4, the SELL rests with 6,
\* depth() shows asks [(100, 6)] and no bids
C26_Witness ==
    /\ Len(trades) = 1
    /\ trades[1].qty = 4
    /\ admitted.side = "SELL" /\ admitted.qty = 10
    /\ Depth(book) = [bids |-> <<>>, asks |-> <<<<100, 6>>>>]

\* C27: cancel_order on an active order returns True and leaves it with
\* active = false and qty = 0, nothing else in the map changing; on an
\* unknown or inactive id it returns False and changes nothing.  An order
\* that is not active is not what best_bid or best_ask answer and adds
\* nothing to depth(), and no call changes its record or trades with it,
\* modify_order included, until an add_order admits its id again.
C27_CancelledStaysOut ==
    [][/\ \A id \in OrderIds :
              \E r \in {CancelOrder(book, id)} :
                  IF id \in DOMAIN book.orders /\ book.orders[id].active
                  THEN /\ r.ret
                       /\ ~r.book.orders[id].active
                       /\ r.book.orders[id].qty = 0
                       /\ \A j \in DOMAIN book.orders \ {id} :
                              r.book.orders[j] = book.orders[j]
                       /\ DOMAIN r.book.orders = DOMAIN book.orders
                  ELSE ~r.ret /\ r.book = book
       /\ \A id \in DOMAIN book.orders :
              ~book.orders[id].active =>
                  /\ \A side \in Sides : Best(book, side).oid # id
                  /\ Depth(book) =
                         Depth([book EXCEPT !.orders =
                                   [j \in DOMAIN book.orders \ {id} |->
                                       book.orders[j]]])
                  /\ \A q \in BookQtys \cup {None}, p \in BookPrices \cup {None} :
                         \E r \in {ModifyOrder(book, id, q, p)} :
                             r.book = book /\ r.trades = <<>>
                  /\ (book'.seq # book.seq /\ admitted'.order_id # id) =>
                         /\ book'.orders[id] = book.orders[id]
                         /\ \A k \in 1..Len(trades') :
                                trades'[k].buy_id # id /\ trades'[k].sell_id # id
                  /\ book'.seq = book.seq => book'.orders[id] = book.orders[id]
      ]_vars

\* order 1 was cancelled while resting; a later order that crosses its price
\* found nothing to trade with and rests
C27_Witness ==
    /\ 1 \in DOMAIN book.orders
    /\ ~book.orders[1].active
    /\ book.orders[1].seq = 1
    /\ book.orders[1].version = 2
    /\ trades = <<>>
    /\ \E j \in DOMAIN book.orders :
           /\ Live(book.orders[j])
           /\ book.orders[j].side # book.orders[1].side
           /\ Crosses(book.orders[j], book.orders[1].price)

\* C28: modify_order on an active order gives it the next seq and the next
\* version, also when only the quantity changes; where it still rests
\* afterwards, every other live order of its side at its price has its heap
\* entry ahead of the modified order's, every earlier heap entry of the
\* order is stale, and the order does not cross the best of the opposite
\* side any more (it was re-matched).  On an unknown or inactive id
\* modify_order returns no trade and leaves the book, seq included, as it was.
C28_ModifyRequeues ==
    \A id \in OrderIds, q \in BookQtys \cup {None}, p \in BookPrices \cup {None} :
        \E r \in {ModifyOrder(book, id, q, p)} :
            IF id \notin DOMAIN book.orders \/ ~book.orders[id].active
            THEN r.book = book /\ r.trades = <<>>
            ELSE LET old == book.orders[id]
                     rec == r.book.orders[id]
                     counter == IF rec.side = "BUY" THEN "SELL" ELSE "BUY"
                 IN  /\ r.book.seq = book.seq + 1
                     /\ rec.seq = book.seq + 1
                     /\ rec.version = old.version + 1
                     /\ r.incoming.qty = IF q # None THEN q ELSE old.qty
                     /\ r.incoming.price = IF p # None THEN p ELSE old.price
                     /\ \A e \in HeapOf(r.book, rec.side) :
                            (e[3] = id /\ e # PushEntry(rec)) =>
                                Stale(r.book, e, rec.side)
                     /\ Live(rec) =>
                            /\ PushEntry(rec) \in HeapOf(r.book, rec.side)
                            /\ \A j \in DOMAIN r.book.orders \ {id} :
                                   (/\ Live(r.book.orders[j])
                                    /\ r.book.orders[j].side = rec.side
                                    /\ r.book.orders[j].price = rec.price) =>
                                       EntryLess(PushEntry(r.book.orders[j]),
                                                 PushEntry(rec))
                            /\ \E best \in {Best(r.book, counter)} :
                                   best.oid # None => ~Crosses(rec, best.price)
                     /\ \A k \in 1..Len(r.trades) :
                            id \in {r.trades[k].buy_id, r.trades[k].sell_id}

\* order 1 was admitted first and modified last: it rests behind order 2 at
\* the same price
C28_Witness ==
    /\ DOMAIN book.orders = {1, 2}
    /\ Live(book.orders[1]) /\ Live(book.orders[2])
    /\ book.orders[1].version = 2
    /\ book.orders[1].seq = 3
    /\ book.orders[2].seq = 2
    /\ book.orders[1].side = book.orders[2].side
    /\ book.orders[1].price = book.orders[2].price
    /\ \E side \in Sides : Best(book, side).oid = 2

\* C38: depth()['bids'] is non-empty exactly when best_bid() returns a
\* price, and its first level then has that price; likewise depth()['asks']
\* and best_ask().
C38_DepthMatchesBest ==
    \E d \in {Depth(book)} :
        /\ (d.bids # <<>>) <=> (best_bid(book) # None)
        /\ d.bids # <<>> => d.bids[1][1] = best_bid(book)
        /\ (d.asks # <<>>) <=> (best_ask(book) # None)
        /\ d.asks # <<>> => d.asks[1][1] = best_ask(book)

\* bids on two levels, with an entry in the bid heap that no longer counts
C38_Witness ==
    /\ Len(Depth(book).bids) = 2
    /\ best_bid(book) = 100
    /\ \E e \in book.bids : Stale(book, e, "BUY")

\* the example: the SELL has just traded 4 at 100 and the BUY rests with 6
C3_Witness ==
    /\ admitted = SellFourAtNinetyNine
    /\ trades = <<RecordTrade(1, 2, 100, 4)>>
    /\ book.orders[1] = [BuyTenAtHundred EXCEPT !.qty = 6]

(***************************************************************************)
(* MatchingEngine.simulate_execution on every order and every random draw  *)
(***************************************************************************)
\* randint(1, qty - 1) is drawn only when qty > 1
PartialDraws(qty) == IF qty > 1 THEN 1..(qty - 1) ELSE {None}

MeInit ==
    /\ BtIdle
    /\ BookIdle
    /\ RiskIdle
    /\ OmIdle
    /\ StratIdle
    /\ ConvIdle
    /\ MtIdle
    /\ SingleIdle
    /\ meOut = [status |-> "idle"]
    /\ \E s \in Sides, q \in 1..MaxMeQty, p \in MePrices :
       \E bq \in [1..levels -> SynthQtys], aq \in [1..levels -> SynthQtys] :
       \E u \in 0..9, r \in PartialDraws(q) :
           meIn = [pc |-> "call",
                   order |-> [side |-> s, qty |-> q, price |-> p],
                   bid_qty |-> bq, ask_qty |-> aq, u |-> u, partial |-> r]

simulate_execution ==
    /\ meIn.pc = "call"
    /\ meOut' = SimulateExecution(meIn.order, meIn.bid_qty, meIn.ask_qty,
                                  meIn.u, meIn.partial)
    /\ meIn' = [meIn EXCEPT !.pc = "returned"]
    /\ UNCHANGED offMe

MeNext == simulate_execution

SpecME == MeInit /\ [][MeNext]_vars

(***************************************************************************)
(* Claims about the MatchingEngine                                         *)
(***************************************************************************)
\* C4: FILLED returns qty = order.qty, PARTIAL returns 0 < qty < order.qty,
\* CANCELLED returns qty 0 and no price; so an order of qty 1 is never
\* PARTIAL, and every result other than CANCELLED carries a price.
C4_OutcomeShape ==
    meIn.pc = "returned" =>
        /\ meOut.status \in {"FILLED", "PARTIAL", "CANCELLED"}
        /\ meOut.status = "FILLED" => meOut.qty = meIn.order.qty
        /\ meOut.status = "PARTIAL" =>
               (0 < meOut.qty /\ meOut.qty < meIn.order.qty)
        /\ meOut.status = "CANCELLED" =>
               (meOut.qty = 0 /\ meOut.price = None)
        /\ meIn.order.qty = 1 => meOut.status # "PARTIAL"
        /\ meOut.status # "CANCELLED" => meOut.price # None

\* an order of qty 1 whose draw fell in the partial band, and was FILLED
C4_Witness ==
    /\ meIn.pc = "returned"
    /\ meIn.order.qty = 1
    /\ meIn.u >= 1
    /\ meIn.u < 7
    /\ meOut.status = "FILLED"
    /\ meOut.price # None

FillCount(r) ==
    Len(r.positions["ABC"]) + Len(r.positions["XYZ"])

RiskInit ==
    /\ BtIdle
    /\ BookIdle
    /\ MeIdle
    /\ OmIdle
    /\ StratIdle
    /\ ConvIdle
    /\ MtIdle
    /\ SingleIdle
    /\ riskRet = [ret |-> FALSE]
    /\ \E mos \in {1, 2}, cash \in {0, 4}, mtb \in {None, 3}, mts \in {None, 3} :
           risk = NewRiskEngine(mos, 2, cash, mtb, mts)

\* check(order)
risk_check ==
    \E order \in RiskOrders :
        \E res \in {CheckCall(risk, order)} :
            /\ risk' = res.risk
            /\ riskRet' = [ret |-> res.ret]
            /\ UNCHANGED offRisk

\* check(order) passed and the order filled filled_qty of its qty
risk_fill ==
    \E order \in RiskOrders :
        \E filled_qty \in 1..order.qty :
            /\ FillCount(risk) < MaxFills
            /\ Check(risk, order)
            /\ risk' = UpdatePosition(risk, order, filled_qty)
            /\ riskRet' = [ret |-> TRUE]
            /\ UNCHANGED offRisk

RiskNext == risk_check \/ risk_fill

SpecRisk == RiskInit /\ [][RiskNext]_vars

(***************************************************************************)
(* Claims about the RiskEngine                                             *)
(***************************************************************************)
\* C5: in the pipeline, after every update_position and for every symbol,
\* |net position| <= max_position, buy_totals <= max_total_buy and
\* sell_totals <= max_total_sell.
C5_LimitsKept ==
    \A s \in Symbols :
        /\ Abs(CurrentPos(risk, s)) <= risk.max_position
        /\ ~Exceeds(risk.buy_totals[s], risk.max_total_buy)
        /\ ~Exceeds(risk.sell_totals[s], risk.max_total_sell)

\* a short position at the limit, reached through a partial fill
C5_Witness ==
    \E s \in Symbols :
        /\ CurrentPos(risk, s) = -risk.max_position
        /\ risk.max_total_sell = 3
        /\ risk.sell_totals[s] = 3
        /\ \E i \in 1..Len(risk.positions[s]) : risk.positions[s][i].qty = 1

\* C37: where every update_position(order, f) follows a check(order) that
\* passed on the same state, with 0 < f <= order.qty, and the engine starts
\* with cash >= 0, cash_balance is never negative.
C37_CashNeverNegative == risk.cash_balance >= 0

\* the whole cash was spent on BUY fills, one of them partial, and a SELL
\* fill has not come yet
C37_Witness ==
    /\ risk.cash_balance = 0
    /\ risk.buy_totals["ABC"] + risk.buy_totals["XYZ"] >= 2
    /\ risk.sell_totals["ABC"] + risk.sell_totals["XYZ"] = 0
    /\ \E s \in Symbols : \E i \in 1..Len(risk.positions[s]) :
           risk.positions[s][i].qty = 1 /\ risk.positions[s][i].price = 2

\* the net of the stored fills of a symbol: buys minus sells
NetOfFills(r, symbol) ==
    LET os == r.positions[symbol]
        Q[i \in 0..Len(os)] ==
            IF i = 0 THEN 0
            ELSE Q[i - 1] + (IF os[i].side = "BUY" THEN os[i].qty ELSE 0 - os[i].qty)
    IN  Q[Len(os)]

\* the four conditions of the claim, stated together
WithinLimits(r, o) ==
    /\ o.qty <= r.max_order_size
    /\ \/ o.side = "BUY"  /\ Abs(NetOfFills(r, o.symbol) + o.qty) <= r.max_position
       \/ o.side = "SELL" /\ Abs(NetOfFills(r, o.symbol) - o.qty) <= r.max_position
    /\ \/ o.side = "BUY"  /\ (r.max_total_buy = Inf
                                \/ r.buy_totals[o.symbol] + o.qty <= r.max_total_buy)
       \/ o.side = "SELL" /\ (r.max_total_sell = Inf
                                \/ r.sell_totals[o.symbol] + o.qty <= r.max_total_sell)

\* C7: check(order) returns true exactly when the size, net-position and
\* cumulative limits hold and, for a BUY only, qty x price <= cash_balance;
\* with cash_balance = 0 every BUY is rejected and every within-limits SELL
\* is accepted.
C7_CheckExact ==
    \A o \in RiskOrders :
        /\ Check(risk, o) <=>
               (WithinLimits(risk, o)
                /\ (o.side = "BUY" => o.qty * o.price <= risk.cash_balance))
        /\ risk.cash_balance = 0 =>
               /\ o.side = "BUY" => ~Check(risk, o)
               /\ (o.side = "SELL" /\ WithinLimits(risk, o)) => Check(risk, o)

\* fills have been applied, the cash is 0, and the last check() passed: a
\* within-limits SELL is accepted there while every BUY is rejected
C7_Witness ==
    /\ FillCount(risk) > 0
    /\ risk.cash_balance = 0
    /\ riskRet.ret
    /\ \E o \in RiskOrders : o.side = "SELL" /\ Check(risk, o)
    /\ \E o \in RiskOrders : o.side = "BUY" /\ WithinLimits(risk, o) /\ ~Check(risk, o)

\* C17: check(order) is pure.  Whether it returns true or false, a step that
\* is not update_position (no fill is stored by it) leaves positions,
\* buy_totals, sell_totals and cash_balance exactly as they were; the limits
\* are unchanged too, so every later check and update_position, which read
\* nothing but the engine and their arguments, give what they would have
\* given before.
C17_CheckIsPure ==
    [][FillCount(risk') = FillCount(risk) =>
          /\ risk'.positions = risk.positions
          /\ risk'.buy_totals = risk.buy_totals
          /\ risk'.sell_totals = risk.sell_totals
          /\ risk'.cash_balance = risk.cash_balance
          /\ risk' = risk]_vars

\* check has just returned false on an engine holding fills, where some
\* other order would be accepted
C17_Witness ==
    /\ ~riskRet.ret
    /\ FillCount(risk) > 0
    /\ \E o \in RiskOrders : Check(risk, o)
    /\ \E o \in RiskOrders : ~Check(risk, o)

(***************************************************************************)
(* OrderManagerServer: frames processed one after the other                *)
(***************************************************************************)
OmInit ==
    /\ BtIdle
    /\ BookIdle
    /\ MeIdle
    /\ StratIdle
    /\ ConvIdle
    /\ MtIdle
    /\ SingleIdle
    /\ riskRet = [ret |-> FALSE]
    /\ om = [orders |-> <<>>, next_id |-> 1]
    /\ omLog = [ack |-> "idle"]
    /\ conn = [open |-> TRUE, acks |-> 0]
    /\ audit = <<>>
    /\ poRet = [calls |-> 0]
    /\ \E cash \in {4, 6} :
           /\ risk = NewRiskEngine(2, 2, cash, None, None)
           /\ omHist = [frames |-> 0, cash0 |-> cash,
                         buy_notional |-> 0, sell_notional |-> 0]

\* the notional a processed frame filled, at the order's price
FilledNotional(log, side) ==
    IF log.status \in {"PARTIAL", "FILLED"} /\ log.order.side = side
    THEN log.filled_qty * log.order.price
    ELSE 0

\* the draws simulate_execution makes for a frame: none unless the frame
\* carries a valid order
OmDrawsFor(frame) ==
    IF frame.kind = "json" /\ FromDict(frame.payload).ok
    THEN [depth : SynthQtys, u : OmDraws,
          partial : PartialDraws(FromDict(frame.payload).order.qty)]
    ELSE {[depth |-> 1, u |-> 0, partial |-> None]}

\* _handle_client, for one complete non-empty frame of an open connection:
\* _process_order_frame, and on an exception out of it the except clause
\* around the receive loop, which leaves the loop and closes the connection
HandleFrame(c, log) ==
    IF log.ack = "raised"
    THEN [c EXCEPT !.open = FALSE]
    ELSE [c EXCEPT !.acks = @ + 1]

process_order_frame ==
    \E frame \in OmFrames :
        \E draw \in OmDrawsFor(frame) :
            /\ omHist.frames < MaxFrames
            /\ conn.open
            /\ \E res \in {ProcessOrderFrame(om, risk, frame,
                                               draw.depth, draw.u, draw.partial)} :
                   /\ om' = res.om
                   /\ risk' = res.risk
                   /\ omLog' = res.log
                   /\ conn' = HandleFrame(conn, res.log)
                   /\ omHist' = [omHist EXCEPT
                          !.frames = @ + 1,
                          !.buy_notional = @ + FilledNotional(res.log, "BUY"),
                          !.sell_notional = @ + FilledNotional(res.log, "SELL")]
            /\ UNCHANGED offOm

OmNext == process_order_frame

SpecOM == OmInit /\ [][OmNext]_vars

(***************************************************************************)
(* Claims about the order manager and the cash it accounts                 *)
(***************************************************************************)
\* C6: after any sequence of processed orders, cash_balance is the initial
\* cash minus the filled BUY notional plus the filled SELL notional, where
\* only FILLED and PARTIAL outcomes count, with their filled qty.
C6_CashIsFilledNotional ==
    risk.cash_balance =
        omHist.cash0 - omHist.buy_notional + omHist.sell_notional

\* C8: update_position is called only for an outcome FILLED or PARTIAL with a
\* positive filled qty and with exactly that qty, and a CANCELLED order
\* leaves the positions, totals and cash of the risk engine as they were.
C8_UpdateOnlyOnFill ==
    [][omHist'.frames # omHist.frames =>
          /\ omLog'.update_qty # None =>
                 /\ omLog'.status \in {"PARTIAL", "FILLED"}
                 /\ omLog'.filled_qty > 0
                 /\ omLog'.update_qty = omLog'.filled_qty
          /\ omLog'.status = "CANCELLED" => risk' = risk
          /\ omLog'.status \in {"PARTIAL", "FILLED"} =>
                 risk' = UpdatePosition(risk, omLog'.order, omLog'.filled_qty)
          /\ omLog'.status = "none" => risk' = risk]_vars

\* C13: the order manager never raises; every complete non-empty frame
\* (invalid JSON, JSON that is no object, missing fields, wrong-typed or null
\* side, qty, price, ts or id, a risk rejection) is answered with exactly one
\* ack, and the connection goes on processing frames.
C13_OneAckPerFrame ==
    conn.open /\ conn.acks = omHist.frames

\* C15: when risk.check(order) returns false, the order manager does not
\* execute the order (simulate_execution is not called for it), leaves the
\* positions, totals and cash_balance of the risk engine and its own orders
\* list as they were, and reports a failure for that order.
C15_RejectedLeavesState ==
    [][/\ omHist'.frames # omHist.frames
       /\ omLog'.ack \notin {"bad_json", "invalid", "raised"}
       /\ ~Check(risk, omLog'.order)
       => /\ risk' = risk
          /\ om'.orders = om.orders
          /\ omLog'.status = "none"
          /\ omLog'.update_qty = None
          /\ omLog'.ack = "rejected"
          /\ conn'.acks = conn.acks + 1]_vars

\* a frame was rejected by an engine that earlier fills had changed
C15_Witness ==
    /\ omLog.ack = "rejected"
    /\ Len(om.orders) > 0
    /\ risk.cash_balance # omHist.cash0

(***************************************************************************)
(* One Order taken through asdict and back through Order.from_dict         *)
(***************************************************************************)
MaxConvQty == 2

\* the valid orders: ts and id are each set or None
ConvOrders ==
    [side : Sides, symbol : Symbols, qty : 1..MaxConvQty, price : RiskPrices,
     ts : {None, 5}, id : {None, 7}]

ConvInit ==
    /\ BookIdle
    /\ MeIdle
    /\ RiskIdle
    /\ OmIdle
    /\ StratIdle
    /\ BtIdle
    /\ MtIdle
    /\ SingleIdle
    /\ \E order \in ConvOrders : conv = [pc |-> "order", order |-> order]

as_dict ==
    /\ conv.pc = "order"
    /\ conv' = [pc |-> "map", order |-> conv.order, map |-> AsDict(conv.order)]
    /\ UNCHANGED offConv

from_dict ==
    /\ conv.pc = "map"
    /\ conv' = [pc |-> "back", order |-> conv.order, map |-> conv.map,
                ret |-> FromDict(conv.map)]
    /\ UNCHANGED offConv

ConvNext == as_dict \/ from_dict

SpecConv == ConvInit /\ [][ConvNext]_vars

\* payloads given to Order.from_dict as they come off the wire: every
\* required field right, wrong in each way the checks name, or missing
MapPayloads ==
    [type : {"object"},
     fields : {OrderFields, OrderFields \ {"ts", "id"}}
                  \cup {OrderFields \ {f} : f \in {"side", "symbol", "qty", "price"}},
     side : {"buy", "SELL", "hold"}, symbol : {"abc", " "},
     qty : {2, 0, None, Text, NaN}, price : {2, 0, None, Text, NaN},
     ts : {5}, id : {7}]

MapInit ==
    /\ BookIdle
    /\ MeIdle
    /\ RiskIdle
    /\ OmIdle
    /\ StratIdle
    /\ BtIdle
    /\ MtIdle
    /\ SingleIdle
    /\ \E d \in MapPayloads : conv = [pc |-> "payload", map |-> d]

validate ==
    /\ conv.pc = "payload"
    /\ conv' = [pc |-> "validated", map |-> conv.map, ret |-> FromDict(conv.map)]
    /\ UNCHANGED offConv

MapNext == validate

SpecMap == MapInit /\ [][MapNext]_vars

\* C11: for every valid Order, Order.from_dict applied to the order's map
\* form (all six fields) returns an Order equal to the original in every
\* field, and raises nothing.
C11_RoundTrip ==
    conv.pc = "back" => conv.ret.ok /\ conv.ret.order = conv.order

\* C30: Order.from_dict either raises a validation error and returns no
\* Order, or returns an Order with side BUY or SELL, a non-empty upper-case
\* symbol, an integer qty > 0 and a price > 0.
C30_ValidOrNothing ==
    conv.pc = "validated" =>
        IF conv.ret.ok
        THEN /\ conv.ret.order.side \in Sides
             /\ conv.ret.order.symbol # ""
             /\ Upper(conv.ret.order.symbol) = conv.ret.order.symbol
             /\ conv.ret.order.qty \in Nat \ {0}
             /\ conv.ret.order.price \in Nat \ {0}
        ELSE conv.ret.exc = "ValueError"

(***************************************************************************)
(* Handler threads of the server sharing the one RiskEngineSim: each runs  *)
(* check(order) and, when it passed, update_position(order).  Neither      *)
(* method takes a lock (the class lock guards __new__ only), so a thread   *)
(* switch can fall between any two statements, and inside the read and     *)
(* the write of an augmented assignment.                                   *)
(***************************************************************************)
Threads == 1..2

MtInit ==
    /\ BookIdle
    /\ MeIdle
    /\ OmIdle
    /\ StratIdle
    /\ BtIdle
    /\ ConvIdle
    /\ SingleIdle
    /\ riskRet = [ret |-> FALSE]
    /\ \E cash \in {2, 4} :
           /\ risk = NewRiskEngine(MaxRiskQty, 2, cash, 3, 3)
           /\ \E orders \in [Threads -> RiskOrders] :
                  mt = [threads |-> [t \in Threads |->
                                        [pc |-> "check", order |-> orders[t],
                                         tmp |-> 0]],
                        cash0 |-> cash]

\* thread t moves to pc, holding tmp
Step(t, pc, tmp) ==
    mt' = [mt EXCEPT !.threads[t].pc = pc, !.threads[t].tmp = tmp]

\* if self._risk_engine.check(order): ... else: return
mt_check(t) ==
    /\ mt.threads[t].pc = "check"
    /\ Step(t, IF Check(risk, mt.threads[t].order) THEN "append" ELSE "done", 0)
    /\ UNCHANGED risk
    /\ UNCHANGED offMt

\* update_position: self.positions.setdefault(symbol, []).append(Order(...))
mt_append(t) ==
    LET order == mt.threads[t].order IN
    /\ mt.threads[t].pc = "append"
    /\ risk' = [risk EXCEPT !.positions[order.symbol] =
                   Append(@, [side |-> order.side, symbol |-> order.symbol,
                              qty |-> order.qty, price |-> order.price,
                              ts |-> order.ts, id |-> order.id])]
    /\ Step(t, "read_total", 0)
    /\ UNCHANGED offMt

\* update_position: the right-hand side self.buy_totals.get(symbol, 0) + qty
mt_read_total(t) ==
    LET order == mt.threads[t].order IN
    /\ mt.threads[t].pc = "read_total"
    /\ Step(t, "write_total",
            (IF order.side = "BUY" THEN risk.buy_totals[order.symbol]
             ELSE risk.sell_totals[order.symbol]) + order.qty)
    /\ UNCHANGED risk
    /\ UNCHANGED offMt

\* update_position: the store self.buy_totals[symbol] = ...
mt_write_total(t) ==
    LET order == mt.threads[t].order IN
    /\ mt.threads[t].pc = "write_total"
    /\ risk' = IF order.side = "BUY"
               THEN [risk EXCEPT !.buy_totals[order.symbol] = mt.threads[t].tmp]
               ELSE [risk EXCEPT !.sell_totals[order.symbol] = mt.threads[t].tmp]
    /\ Step(t, "read_cash", 0)
    /\ UNCHANGED offMt

\* update_position: self.cash_balance -= qty * order.price, its load and
\* arithmetic
mt_read_cash(t) ==
    LET order == mt.threads[t].order IN
    /\ mt.threads[t].pc = "read_cash"
    /\ Step(t, "write_cash",
            IF order.side = "BUY"
            THEN risk.cash_balance - order.qty * order.price
            ELSE risk.cash_balance + order.qty * order.price)
    /\ UNCHANGED risk
    /\ UNCHANGED offMt

\* update_position: self.cash_balance -= ..., its store
mt_write_cash(t) ==
    /\ mt.threads[t].pc = "write_cash"
    /\ risk' = [risk EXCEPT !.cash_balance = mt.threads[t].tmp]
    /\ Step(t, "done", 0)
    /\ UNCHANGED offMt

MtNext ==
    \E t \in Threads :
        \/ mt_check(t)
        \/ mt_append(t)
        \/ mt_read_total(t)
        \/ mt_write_total(t)
        \/ mt_read_cash(t)
        \/ mt_write_cash(t)

SpecMT == MtInit /\ [][MtNext]_vars

\* the qty of the stored fills of one side
RECURSIVE SideQty(_, _)
SideQty(os, side) ==
    IF os = <<>> THEN 0
    ELSE (IF Head(os).side = side THEN Head(os).qty ELSE 0)
         + SideQty(Tail(os), side)

\* the notional of the stored fills of one side
RECURSIVE SideNotional(_, _)
SideNotional(os, side) ==
    IF os = <<>> THEN 0
    ELSE (IF Head(os).side = side THEN Head(os).qty * Head(os).price ELSE 0)
         + SideNotional(Tail(os), side)

MtQuiet == \A t \in Threads : mt.threads[t].pc = "done"

\* C12: when several threads concurrently run check(order) followed by
\* update_position(order) on the shared engine, every interleaving keeps
\* |net position| <= max_position, the cumulative totals within their caps
\* and cash_balance >= 0, and loses no update of cash_balance or the totals.
C12_ThreadsKeepLimits ==
    MtQuiet =>
        /\ \A s \in Symbols :
               /\ Abs(CurrentPos(risk, s)) <= risk.max_position
               /\ risk.buy_totals[s] <= risk.max_total_buy
               /\ risk.sell_totals[s] <= risk.max_total_sell
               /\ risk.buy_totals[s] = SideQty(risk.positions[s], "BUY")
               /\ risk.sell_totals[s] = SideQty(risk.positions[s], "SELL")
        /\ risk.cash_balance >= 0
        /\ risk.cash_balance =
               LET Net(s) == SideNotional(risk.positions[s], "SELL")
                                 - SideNotional(risk.positions[s], "BUY")
               IN  mt.cash0 + Net("ABC") + Net("XYZ")

\* C36: whenever no call of update_position is under way, for every symbol
\* buy_totals - sell_totals is the net position that check computes from the
\* stored positions list, and update_position with a quantity <= 0 leaves
\* the engine as it is.
C36_ExposureViewsAgree ==
    MtQuiet =>
    /\ \A s \in Symbols :
           risk.buy_totals[s] - risk.sell_totals[s] = CurrentPos(risk, s)
    /\ \A side \in Sides, s \in Symbols, q \in {0, -5} :
           /\ UpdatePosition(risk, [side |-> side, symbol |-> s, qty |-> 1,
                                    price |-> 1, ts |-> None, id |-> None], q)
                  = risk
           /\ UpdatePosition(risk, [side |-> side, symbol |-> s, qty |-> q,
                                    price |-> 1, ts |-> None, id |-> None], None)
                  = risk

(***************************************************************************)
(* One strategy instance after __init__ and load_data, and its calls       *)
(***************************************************************************)
MARows == [MA_20 : {NaN, 1, 2, 3}, MA_50 : {NaN, 2}, Close : {10}]

Frames(rows) == UNION {[1..n -> rows] : n \in 0..MaxBars}

\* Close and Returns columns of the file
StratCloses == {9, 10, 12}

ReturnCells == {NaN, -1, 1}

StratInit ==
    /\ BtIdle
    /\ BookIdle
    /\ MeIdle
    /\ RiskIdle
    /\ OmIdle
    /\ ConvIdle
    /\ MtIdle
    /\ SingleIdle
    /\ stratRet = NoSignal
    /\ emitted = <<>>
    /\ \/ \E data \in Frames(MARows) : strat = NewStrategy("MA", 1, 0, data)
       \/ \E closes \in Frames(StratCloses), w \in {1, 2} :
              \E returns \in [1..Len(closes) -> ReturnCells] :
                  strat = NewStrategy("Momentum", w, <<1, 10>>,
                                      LoadMomentum(closes, returns, w))
       \/ \E closes \in Frames(StratCloses), w \in {1, 2},
              t \in {<<1, 2>>, <<4, 5>>} :
              strat = NewStrategy("ZScore", w, t, LoadZScore(closes, w))

get_signal_at_index ==
    \E index \in 0..MaxBars :
        \E r \in {GetSignalAtIndex(strat, index)} :
            /\ Len(emitted) + Len(r.out) <= MaxEmitted
            /\ strat' = r.self
            /\ stratRet' = r.ret
            /\ emitted' = emitted \o r.out
            /\ UNCHANGED offStrat

generate_signals ==
    \E r \in {GenerateSignals(strat)} :
        /\ Len(emitted) + Len(r.out) <= MaxEmitted
        /\ strat' = r.self
        /\ emitted' = emitted \o r.out
        /\ UNCHANGED <<stratRet, offStrat>>

StratNext == get_signal_at_index \/ generate_signals

SpecStrat == StratInit /\ [][StratNext]_vars

Emits(self, index) ==
    Let(LAMBDA res : IF res.out = <<>> THEN "NONE" ELSE res.out[1].signal,
        GetSignalAtIndex(self, index))

\* C18: a moving-average instance emits nothing on a bar whose averages or
\* whose previous bar's averages are not all there; on every later bar it
\* emits BUY exactly when the short average was not above the long one on the
\* previous bar, is above it now and position = 0, and SELL exactly when it
\* was above on the previous bar, is at or below it now (equality included)
\* and position = 1.
C18_MACrossover ==
    strat.class = "MA" =>
        \A index \in 0..(Len(strat.data) - 1) :
            LET prev == Row(strat, index - 1)
                curr == Row(strat, index)
                seeded == /\ index >= 1
                          /\ ~IsNa(prev.MA_20) /\ ~IsNa(prev.MA_50)
                          /\ ~IsNa(curr.MA_20) /\ ~IsNa(curr.MA_50)
            IN  Emits(strat, index) =
                    IF ~seeded THEN "NONE"
                    ELSE IF /\ ~(prev.MA_20 > prev.MA_50)
                            /\ curr.MA_20 > curr.MA_50
                            /\ strat.position = 0 THEN "BUY"
                    ELSE IF /\ prev.MA_20 > prev.MA_50
                            /\ curr.MA_20 <= curr.MA_50
                            /\ strat.position = 1 THEN "SELL"
                    ELSE "NONE"

\* C19: on a bar whose momentum and whose previous bar's momentum exist, a
\* momentum instance emits BUY exactly when momentum > threshold, the
\* previous bar's momentum was not above the threshold and position = 0, with
\* no further condition, and SELL when momentum < -threshold and
\* position = 1, whatever the previous bar.
C19_MomentumRule ==
    strat.class = "Momentum" =>
        \A index \in (strat.window + 1)..(Len(strat.data) - 1) :
            LET prev == Row(strat, index - 1).Momentum
                curr == Row(strat, index).Momentum
                t    == strat.threshold
            IN  Emits(strat, index) =
                    IF /\ FracLess(t, curr) /\ ~FracLess(t, prev)
                       /\ strat.position = 0 THEN "BUY"
                    ELSE IF /\ FracLess(curr, <<-t[1], t[2]>>)
                            /\ strat.position = 1 THEN "SELL"
                    ELSE "NONE"

\* C20: on a bar whose window is full, a z-score instance emits nothing when
\* the window's standard deviation is zero; otherwise, with z the close's
\* distance from the window's mean in population standard deviations, it
\* emits BUY when position = 0 and z < -threshold, and SELL when
\* position = 1, the previous bar's z was below 0 and z >= 0.
\* With num and ss as in LoadZScore, z = num * sqrt(w) / sqrt(ss).
C20_ZScoreRule ==
    strat.class = "ZScore" =>
        \A index \in (strat.window - 1)..(Len(strat.data) - 1) :
            LET curr == Row(strat, index).Z_Score
                t    == strat.threshold
                w    == strat.window
            IN  Emits(strat, index) =
                    IF curr.ss = 0 THEN "NONE"
                    ELSE IF /\ strat.position = 0
                            /\ curr.num < 0
                            /\ curr.num * curr.num * w * t[2] * t[2]
                                   > t[1] * t[1] * curr.ss THEN "BUY"
                    ELSE IF /\ strat.position = 1
                            /\ index >= 1
                            /\ Row(strat, index - 1).Z_Score.ss # 0
                            /\ Row(strat, index - 1).Z_Score.num < 0
                            /\ curr.num >= 0 THEN "SELL"
                    ELSE "NONE"

(***************************************************************************)
(* Backtester.run over the loaded market data, one bar per step            *)
(***************************************************************************)
BtPrices == {100, 102}

MarketData ==
    UNION {{[k \in 1..n |-> [timestamp |-> k, symbol |-> syms[k],
                              price |-> prices[k]]] :
               syms \in [1..n -> Symbols], prices \in [1..n -> BtPrices]} :
           n \in 0..MaxBtBars}

BtInit ==
    /\ BookIdle
    /\ MeIdle
    /\ StratIdle
    /\ ConvIdle
    /\ MtIdle
    /\ SingleIdle
    /\ riskRet = [ret |-> FALSE]
    /\ OmIdle
    /\ btRet = NoMetrics
    /\ btHist = [draws |-> <<>>, runs |-> <<>>]
    /\ \E data \in MarketData, cash \in {150, 250, 1000}, size \in {1, 2} :
           /\ risk = NewRiskEngine(2, 3, cash, None, None)
           /\ bt = NewBacktester(1000, size, cash, data)

\* run(), up to the for loop: _reset_state and a fresh strategy
run_start ==
    /\ bt.pc \in {"idle", "done"}
    /\ bt.runs < MaxRuns
    /\ bt' = [ResetState(bt) EXCEPT !.pc = "running", !.i = 0, !.runs = @ + 1,
                                   !.strategy_position = 0]
    /\ risk' = ResetRisk(risk, bt.risk_initial_cash)
    /\ btHist' = [btHist EXCEPT !.draws = <<>>]
    /\ UNCHANGED <<om, audit, btRet, offBt>>

\* the draws of one bar: none unless the bar is of the strategy's symbol.
\* A run after the first is a replay: the bars are the same, the strategy
\* is built afresh and decides as before, and the matching engine's random
\* generator is seeded as before, so every bar draws what it drew first
BtDrawsFor(b, hist) ==
    IF hist.runs # <<>> THEN {hist.runs[1].draws[b.i + 1]}
    ELSE
    {[fire |-> FALSE, depth |-> 1, u |-> 0, partial |-> None]} \cup
    IF b.data[b.i + 1].symbol = b.symbol
    THEN [fire : {TRUE}, depth : SynthQtys, u : OmDraws,
          partial : PartialDraws(b.position_size)]
    ELSE {}

\* run(), one pass of the for loop
run_bar ==
    /\ bt.pc = "running"
    /\ bt.i < Len(bt.data)
    /\ \E draw \in BtDrawsFor(bt, btHist) :
           \E res \in {RunBar(bt, om, risk, audit, draw.fire, draw.depth,
                               draw.u, draw.partial)} :
               /\ bt' = res.bt
               /\ om' = res.om
               /\ risk' = res.risk
               /\ audit' = res.audit
               /\ btHist' = [btHist EXCEPT !.draws = Append(@, draw)]
    /\ UNCHANGED <<btRet, offBt>>

\* run(), after the loop: return self.compute_performance_metrics()
run_end ==
    /\ bt.pc = "running"
    /\ bt.i = Len(bt.data)
    /\ btRet' = ComputePerformanceMetrics(bt)
    /\ bt' = [bt EXCEPT !.pc = "done"]
    /\ btHist' = [btHist EXCEPT !.runs = Append(@,
                      [draws |-> btHist.draws,
                       metrics |-> ComputePerformanceMetrics(bt),
                       trade_log |-> bt.trade_log,
                       equity_curve |-> bt.equity_curve])]
    /\ UNCHANGED <<om, risk, audit, offBt>>

BtNext == run_start \/ run_bar \/ run_end

SpecBT == BtInit /\ [][BtNext]_vars

(***************************************************************************)
(* Claims about the Backtester                                             *)
(***************************************************************************)
\* C10: after a run over at least one bar, final_equity = initial_capital +
\* realized_pnl + position x last_price - position x avg_entry_price, with
\* the values at the end of the run, also when the last bar produced a fill.
C10_FinalEquityIdentity ==
    (bt.pc = "done" /\ btRet # NoMetrics) =>
        FracOf(btRet.final_equity) =
            FracSub(FracAdd(FracAdd(FracOf(bt.initial_capital), bt.realized_pnl),
                            FracOf(bt.position * bt.last_price)),
                    FracTimes(bt.avg_entry_price, bt.position))

\* C21: two runs of one Backtester over the same bars, with the same
\* strategy firings and the same matching-engine draws, give the same
\* metrics, the same trade log, order ids included, and the same equity
\* curve.
C21_ReplayDeterminism ==
    \A i, j \in 1..Len(btHist.runs) :
        btHist.runs[i].draws = btHist.runs[j].draws =>
            /\ btHist.runs[i].metrics = btHist.runs[j].metrics
            /\ btHist.runs[i].trade_log = btHist.runs[j].trade_log
            /\ btHist.runs[i].equity_curve = btHist.runs[j].equity_curve

\* the books _handle_fill keeps
FillBooks(b) ==
    <<b.position, b.cash, b.realized_pnl, b.avg_entry_price,
      b.open_trade_start, b.completed_trades>>

\* one bar of a run, seen from outside: the event the bar logged tells
\* whether a fill was handled, of which side, quantity and price
C29_Bar ==
    (bt.pc = "running" /\ bt'.pc = "running" /\ bt'.i = bt.i + 1) =>
        LET n    == Len(bt'.trade_log)
            sold == /\ n = Len(bt.trade_log) + 1
                    /\ bt'.trade_log[n].status \in {"FILLED", "PARTIAL"}
                    /\ bt'.trade_log[n].signal = "SELL"
                    /\ bt'.trade_log[n].qty > 0
        IN  IF ~sold
            THEN bt'.completed_trades = bt.completed_trades
            ELSE LET ev    == bt'.trade_log[n]
                     price == IF ev.price # None THEN ev.price
                              ELSE bt.data[bt.i + 1].price
                     close == Min(ev.qty, bt.position)
                     m     == Len(bt'.completed_trades)
                 IN  IF bt.position = 0
                     THEN FillBooks(bt') = FillBooks(bt)
                     ELSE /\ bt'.position = bt.position - close
                          /\ m = Len(bt.completed_trades) + 1
                          /\ SubSeq(bt'.completed_trades, 1, m - 1)
                                 = bt.completed_trades
                          /\ bt'.completed_trades[m].qty = close
                          /\ bt'.completed_trades[m].pnl =
                                 FracTimes(FracSub(FracOf(price),
                                                   bt.avg_entry_price), close)
                          /\ bt'.position > 0 =>
                                 /\ bt'.avg_entry_price = bt.avg_entry_price
                                 /\ bt'.open_trade_start = bt.open_trade_start

\* C29: the position is never negative; a SELL fill of q closes min(q,
\* position) shares and appends one TradeRecord of that quantity with pnl
\* (price - avg_entry_price) x closed quantity, a SELL fill while flat
\* leaves position, cash, realized pnl, average entry price, trade start
\* and completed trades as they were, no other bar appends a TradeRecord,
\* and avg_entry_price is 0 and open_trade_start is None exactly while the
\* position is 0.
C29_LongOnly ==
    /\ [](/\ bt.position >= 0
          /\ (bt.position = 0) <=> (bt.avg_entry_price = FracOf(0))
          /\ (bt.position = 0) <=> (bt.open_trade_start = None))
    /\ [][C29_Bar]_vars

\* a SELL fill of 2 has closed the 1 share held
C29_Witness ==
    /\ bt.pc = "running"
    /\ bt.position = 0
    /\ bt.trade_log # <<>>
    /\ bt.trade_log[Len(bt.trade_log)].signal = "SELL"
    /\ bt.trade_log[Len(bt.trade_log)].status = "FILLED"
    /\ bt.trade_log[Len(bt.trade_log)].qty = 2
    /\ bt.completed_trades # <<>>
    /\ bt.completed_trades[Len(bt.completed_trades)].qty = 1
    /\ bt.completed_trades[Len(bt.completed_trades)].exit_time =
           bt.trade_log[Len(bt.trade_log)].timestamp

\* a SELL was filled while no share is held
C29_FlatSell ==
    /\ bt.pc = "running"
    /\ bt.position = 0
    /\ bt.completed_trades = <<>>
    /\ bt.trade_log # <<>>
    /\ bt.trade_log[Len(bt.trade_log)].signal = "SELL"
    /\ bt.trade_log[Len(bt.trade_log)].status = "FILLED"

\* C34: during a run, after every bar, the risk engine's net position in
\* the traded symbol (filled buys minus filled sells) is the backtester's
\* position, and so never negative.
C34_RiskNetIsPosition ==
    bt.pc \in {"running", "done"} =>
        /\ CurrentPos(risk, bt.symbol) = bt.position
        /\ risk.buy_totals[bt.symbol] - risk.sell_totals[bt.symbol] = bt.position
        /\ CurrentPos(risk, bt.symbol) >= 0

\* C22: a run over market data without a bar of the strategy's symbol
\* returns metrics that are all there and all zero, and leaves the trade
\* log, the equity curve and the completed trades empty.
C22_EmptyRunZeroMetrics ==
    (/\ bt.pc = "done"
     /\ \A k \in 1..Len(bt.data) : bt.data[k].symbol # bt.symbol) =>
        /\ bt.trade_log = <<>>
        /\ bt.equity_curve = <<>>
        /\ bt.completed_trades = <<>>
        /\ btRet # NoMetrics
        /\ btRet.total_pnl = 0
        /\ btRet.num_trades = 0
        /\ btRet.realized_pnl = FracOf(0)

(***************************************************************************)
(* OrderManager.process_order called with one order after the other        *)
(***************************************************************************)
MaxCalls == 2

MaxPoQty == 2

PoOrders ==
    [side : {"BUY", "SELL", "HOLD"}, symbol : {"ABC"}, qty : 0..MaxPoQty,
     price : {0, 2}, ts : {None}, id : {None, 7}]

PoInit ==
    /\ BookIdle
    /\ MeIdle
    /\ StratIdle
    /\ BtIdle
    /\ ConvIdle
    /\ MtIdle
    /\ SingleIdle
    /\ riskRet = [ret |-> FALSE]
    /\ om = [orders |-> <<>>, next_id |-> 1]
    /\ omLog = [ack |-> "idle"]
    /\ omHist = [frames |-> 0]
    /\ conn = [open |-> TRUE, acks |-> 0]
    /\ audit = <<>>
    /\ poRet = [calls |-> 0]
    /\ \E cash \in {2, 6} : risk = NewRiskEngine(2, 2, cash, None, None)

\* the draws simulate_execution makes for an order: none unless the order
\* is valid
PoDrawsFor(order) ==
    IF order.side \in {"BUY", "SELL"} /\ order.qty > 0 /\ order.price > 0
    THEN [depth : SynthQtys, u : OmDraws, partial : PartialDraws(order.qty)]
    ELSE {[depth |-> 1, u |-> 0, partial |-> None]}

process_order ==
    \E order \in PoOrders :
        \E draw \in PoDrawsFor(order) :
            /\ poRet.calls < MaxCalls
            /\ \E res \in {ProcessOrder(om, risk, audit, order,
                                          draw.depth, draw.u, draw.partial)} :
                   /\ om' = res.om
                   /\ risk' = res.risk
                   /\ audit' = res.audit
                   /\ poRet' = [calls |-> poRet.calls + 1,
                                result |-> res.result]
            /\ UNCHANGED offPo

PoNext == process_order

SpecPO == PoInit /\ [][PoNext]_vars

\* the rows a step appended to the audit file
Appended == SubSeq(audit', Len(audit) + 1, Len(audit'))

\* the event types that end an order
TerminalEvents == {"rejected", "filled", "partial", "cancelled"}

MaxConstructs == 3

MaxInitFills == 1

EngineArgs ==
    [max_order_size : {1, 2}, max_position : {2}, cash_balance : {3, 4},
     max_total_buy : {None}, max_total_sell : {None}]

\* __new__, under cls._lock
New(c) ==
    IF ~c.instance THEN [c EXCEPT !.instance = TRUE, !.initialized = FALSE]
    ELSE c

InitializedNever(c) == FALSE

\* the guard of __init__: if self._initialized: return
Initialized(c) == c.initialized

\* __init__: the limits and the cash
InitLimits(c, args) ==
    [c EXCEPT !.attrs = @ \cup {"limits"},
              !.engine = [@ EXCEPT
                  !.max_order_size = args.max_order_size,
                  !.max_position = args.max_position,
                  !.cash_balance = args.cash_balance,
                  !.max_total_buy = IF args.max_total_buy # None
                                    THEN args.max_total_buy ELSE Inf,
                  !.max_total_sell = IF args.max_total_sell # None
                                     THEN args.max_total_sell ELSE Inf]]

\* __init__: positions, buy_totals and sell_totals
InitBooks(c) ==
    [c EXCEPT !.attrs = @ \cup {"books"},
              !.engine = [@ EXCEPT
                  !.positions = [s \in Symbols |-> <<>>],
                  !.buy_totals = [s \in Symbols |-> 0],
                  !.sell_totals = [s \in Symbols |-> 0]]]

\* __init__: self._initialized = True
InitFlag(c) == [c EXCEPT !.initialized = TRUE]

Caller(args) == [pc |-> "new", args |-> args, late |-> FALSE]

SingleInit ==
    /\ BookIdle
    /\ MeIdle
    /\ RiskIdle
    /\ OmIdle
    /\ StratIdle
    /\ BtIdle
    /\ ConvIdle
    /\ MtIdle
    /\ \E args \in [Threads -> EngineArgs] :
           single = [class |-> NoInstance, bodies |-> 0, calls |-> 2,
                     threads |-> [t \in Threads |-> Caller(args[t])]]

offSingle == <<bookVars, meVars, riskVars, omVars, stratVars, btVars,
               convVars, mtVars, audit>>

\* a step of thread t that leaves the class as c
Goes(t, pc, c) ==
    /\ single' = [single EXCEPT !.threads[t].pc = pc, !.class = c]
    /\ UNCHANGED offSingle

\* RiskEngineSim.__new__; late notes that the instance was initialized
\* before this call began
sg_new(t) ==
    /\ single.threads[t].pc = "new"
    /\ single' = [single EXCEPT
                     !.threads[t].pc = "guard",
                     !.threads[t].late = single.class.initialized,
                     !.class = New(single.class)]
    /\ UNCHANGED offSingle

\* __init__, the guard; bodies counts the calls that went past it
sg_guard(t) ==
    /\ single.threads[t].pc = "guard"
    /\ IF Initialized(single.class)
       THEN single' = [single EXCEPT !.threads[t].pc = "done"]
       ELSE single' = [single EXCEPT !.threads[t].pc = "limits",
                                     !.bodies = @ + 1]
    /\ UNCHANGED offSingle

sg_limits(t) ==
    /\ single.threads[t].pc = "limits"
    /\ Goes(t, "books", InitLimits(single.class, single.threads[t].args))

sg_books(t) ==
    /\ single.threads[t].pc = "books"
    /\ Goes(t, "flag", InitBooks(single.class))

sg_flag(t) ==
    /\ single.threads[t].pc = "flag"
    /\ Goes(t, "done", InitFlag(single.class))

\* the thread constructs the engine once more, with arguments of its choice
sg_again(t) ==
    /\ single.threads[t].pc = "done"
    /\ single.calls < MaxConstructs
    /\ \E args \in EngineArgs :
           single' = [single EXCEPT !.threads[t] = Caller(args),
                                    !.calls = @ + 1]
    /\ UNCHANGED offSingle

\* the initialized engine is used: update_position for a fill of one share
sg_fill ==
    /\ single.class.initialized
    /\ single.class.attrs = {"limits", "books"}
    /\ FillCount(single.class.engine) < MaxInitFills
    /\ single' = [single EXCEPT !.class.engine =
                     UpdatePosition(@, [side |-> "BUY", symbol |-> "ABC",
                                        qty |-> 1, price |-> 1, ts |-> None,
                                        id |-> 1], None)]
    /\ UNCHANGED offSingle

SingleNext ==
    \/ \E t \in Threads : sg_new(t)
    \/ \E t \in Threads : sg_guard(t)
    \/ \E t \in Threads : sg_limits(t)
    \/ \E t \in Threads : sg_books(t)
    \/ \E t \in Threads : sg_flag(t)
    \/ \E t \in Threads : sg_again(t)
    \/ sg_fill

SpecSingle == SingleInit /\ [][SingleNext]_vars

\* C23: when two threads construct the engine concurrently, the body of
\* __init__ runs once: at most one call goes past the guard, so the limits,
\* the cash, the positions and the totals are set by one call only.
C23_InitOnce == single.bodies <= 1

MaxIdFrames == 3

\* what the clients send: an order without id, with an id of the client's
\* choice, or without symbol
IdPayloads ==
    LET base == [type |-> "object", fields |-> OrderFields \ {"ts", "id"},
                 side |-> "buy", symbol |-> "abc", qty |-> 1, price |-> 1,
                 ts |-> None, id |-> None]
    IN  {base, [base EXCEPT !.fields = @ \ {"symbol"}]} \cup
        {[base EXCEPT !.fields = @ \cup {"id"}, !.id = i] : i \in {1, 2}}

IdsInit ==
    /\ BookIdle
    /\ MeIdle
    /\ StratIdle
    /\ BtIdle
    /\ ConvIdle
    /\ SingleIdle
    /\ riskRet = [ret |-> FALSE]
    /\ risk = NewRiskEngine(2, 2, 2, None, None)
    /\ om = [orders |-> <<>>, next_id |-> 1]
    /\ omLog = [ack |-> "idle"]
    /\ omHist = [frames |-> 0, assigned |-> <<>>, acked |-> <<>>]
    /\ conn = [open |-> TRUE, acks |-> 0]
    /\ audit = <<>>
    /\ poRet = [calls |-> 0]
    /\ mt = [threads |-> [t \in Threads |-> [pc |-> "recv", order |-> NoOrder,
                                             own |-> FALSE]],
             cash0 |-> 2]

offIds == <<bookVars, meVars, riskRet, omLog, conn, poRet, stratVars, btVars,
            convVars, single, audit>>

\* json.loads and Order.from_dict of the next frame of thread t's client; a
\* frame that fails validation is answered with ok False
ids_recv(t) ==
    /\ mt.threads[t].pc = "recv"
    /\ omHist.frames < MaxIdFrames
    /\ \E payload \in IdPayloads :
           \E parsed \in {FromDict(payload)} :
               mt' = IF parsed.ok
                     THEN [mt EXCEPT !.threads[t] =
                              [pc |-> "assign", order |-> parsed.order,
                               own |-> parsed.order.id # None]]
                     ELSE mt
    /\ omHist' = [omHist EXCEPT !.frames = @ + 1]
    /\ UNCHANGED <<om, risk, offIds>>

\* the id, under the lock
ids_assign(t) ==
    /\ mt.threads[t].pc = "assign"
    /\ \E res \in {AssignId(om, mt.threads[t].order)} :
           /\ om' = res.om
           /\ mt' = [mt EXCEPT !.threads[t].pc = "risk",
                               !.threads[t].order = res.order]
           /\ omHist' = IF mt.threads[t].own THEN omHist
                        ELSE [omHist EXCEPT !.assigned = Append(@, res.order.id)]
    /\ UNCHANGED <<risk, offIds>>

\* check and update_position; a rejected order is answered with ok False
ids_risk(t) ==
    /\ mt.threads[t].pc = "risk"
    /\ IF Check(risk, mt.threads[t].order)
       THEN /\ risk' = UpdatePosition(risk, mt.threads[t].order, None)
            /\ mt' = [mt EXCEPT !.threads[t].pc = "execute"]
       ELSE /\ risk' = risk
            /\ mt' = [mt EXCEPT !.threads[t].pc = "recv"]
    /\ UNCHANGED <<om, omHist, offIds>>

\* simulate_execution, the append to orders and the ack with ok True
ids_execute(t) ==
    /\ mt.threads[t].pc = "execute"
    /\ \E u \in OmDraws :
           \E response \in {SimulateExecution(mt.threads[t].order,
                                [i \in 1..levels |-> 1],
                                [i \in 1..levels |-> 1], u, None)} :
               om' = IF response.status \in {"PARTIAL", "FILLED"}
                     THEN [om EXCEPT !.orders = Append(@, mt.threads[t].order)]
                     ELSE om
    /\ omHist' = [omHist EXCEPT !.acked =
                     Append(@, [id |-> mt.threads[t].order.id,
                                own |-> mt.threads[t].own])]
    /\ mt' = [mt EXCEPT !.threads[t].pc = "recv"]
    /\ UNCHANGED <<risk, offIds>>

IdsNext ==
    \/ \E t \in Threads : ids_recv(t)
    \/ \E t \in Threads : ids_assign(t)
    \/ \E t \in Threads : ids_risk(t)
    \/ \E t \in Threads : ids_execute(t)

SpecIds == IdsInit /\ [][IdsNext]_vars

MaxRows == 2

CsvColumns == {"Datetime", "Symbol", "Close"}

\* the rows csv.DictReader hands over: row.get(column) is None for a column
\* the row lacks.  A Datetime cell holds a time in ISO format (its number)
\* or Text, a Close cell a number (0 included) or Text, a Symbol cell may be
\* empty
CsvRows ==
    [fields : {CsvColumns} \cup {CsvColumns \ {c} : c \in CsvColumns},
     Datetime : {1, 2, Text}, Symbol : {"", "ABC"}, Close : {100, 0, Text}]

\* _parse_timestamp: None for a string that is no ISO time
ParseTimestamp(ts_str) == IF ts_str = Text THEN None ELSE ts_str

\* MarketDataPoint(timestamp=, symbol=, price=)
MarketDataPoint(timestamp, symbol, price) ==
    [timestamp |-> timestamp, symbol |-> symbol, price |-> price]

\* one pass of the for loop: the points yielded so far, with the row's
\* point if the row yields one
ReadRow(row, out) ==
    IF \/ "Datetime" \notin row.fields
       \/ "Symbol" \notin row.fields \/ row.Symbol = ""
       \/ "Close" \notin row.fields
    THEN out
    ELSE IF ParseTimestamp(row.Datetime) = None THEN out
    ELSE IF ~FloatOf(row.Close).ok THEN out
    ELSE Append(out, MarketDataPoint(ParseTimestamp(row.Datetime), row.Symbol,
                                     FloatOf(row.Close).v))

CsvFiles == UNION {[1..n -> CsvRows] : n \in 0..MaxRows}

CsvInit ==
    /\ BookIdle
    /\ MeIdle
    /\ RiskIdle
    /\ OmIdle
    /\ StratIdle
    /\ BtIdle
    /\ MtIdle
    /\ SingleIdle
    /\ \E file \in CsvFiles : conv = [pc |-> "reading", rows |-> file, i |-> 0,
                                       out |-> <<>>]

read_row ==
    /\ conv.pc = "reading"
    /\ conv.i < Len(conv.rows)
    /\ conv' = [conv EXCEPT !.i = @ + 1,
                            !.out = ReadRow(conv.rows[conv.i + 1], @)]
    /\ UNCHANGED offConv

read_end ==
    /\ conv.pc = "reading"
    /\ conv.i = Len(conv.rows)
    /\ conv' = [conv EXCEPT !.pc = "read"]
    /\ UNCHANGED offConv

CsvNext == read_row \/ read_end

SpecCsv == CsvInit /\ [][CsvNext]_vars

\* the rows the reader is to keep: every field there, a timestamp that
\* parses and a Close that is a number
Remaining(row) ==
    /\ row.fields = CsvColumns
    /\ row.Symbol # ""
    /\ row.Datetime # Text
    /\ row.Close # Text

RECURSIVE PointsOf(_, _)
PointsOf(rows, n) ==
    IF n = 0 THEN <<>>
    ELSE IF Remaining(rows[n])
    THEN Append(PointsOf(rows, n - 1),
                [timestamp |-> rows[n].Datetime, symbol |-> rows[n].Symbol,
                 price |-> rows[n].Close])
    ELSE PointsOf(rows, n - 1)

\* C31: the points yielded so far are those of the rows read so far that
\* have every field, a timestamp that parses and a numeric Close, one per
\* row and in file order, and every one of them has a non-empty symbol and
\* a price > 0.
C31_YieldedPoints ==
    conv.pc \in {"reading", "read"} =>
        /\ conv.out = PointsOf(conv.rows, conv.i)
        /\ \A k \in 1..Len(conv.out) :
               conv.out[k].symbol # "" /\ conv.out[k].price > 0

\* without the bound on the price the rest of the statement holds
C31_RowsInOrder ==
    conv.pc \in {"reading", "read"} =>
        /\ conv.out = PointsOf(conv.rows, conv.i)
        /\ \A k \in 1..Len(conv.out) : conv.out[k].symbol # ""

(***************************************************************************)
(* RiskEngineLive.check (risk_engine.py 37-84) against what the broker     *)
(* reports: the account's cash and equity and the positions held           *)
(***************************************************************************)
LiveSymbols == {"ABC", "BTC/USD"}

\* order.symbol.replace("/", "")
NoSlash(symbol) == IF symbol = "BTC/USD" THEN "BTCUSD" ELSE symbol

LiveOrders == [side : Sides, symbol : LiveSymbols, qty : 1..2, price : RiskPrices]

\* trading_client.get_all_positions(): at most one asset per symbol
LiveAssets ==
    [symbol : {NoSlash(s) : s \in LiveSymbols}, qty : {1, 2}, market_value : {2}]

LivePositions ==
    {held \in SUBSET LiveAssets :
        \A a, b \in held : a.symbol = b.symbol => a = b}

\* trading_client.get_account()
LiveAccounts == [non_marginable_buying_power : {2, 100}, equity : {5, 100}]

\* max_order_value, and max_asset_percentage as a fraction
LiveEngines == [max_order_value : {3, 1000}, max_asset_percentage : {<<1, 10>>}]

NoAsset == [symbol |-> "", qty |-> 0, market_value |-> 0]

\* the for loop over get_all_positions(): the asset of the order's symbol
AssetStats(order, held) ==
    IF \E a \in held : a.symbol = NoSlash(order.symbol)
    THEN CHOOSE a \in held : a.symbol = NoSlash(order.symbol)
    ELSE NoAsset

\* order notional + market value > equity * max_asset_percentage
OverShare(order, asset, account, self) ==
    (order.qty * order.price + asset.market_value) * self.max_asset_percentage[2]
        > account.equity * self.max_asset_percentage[1]

\* RiskEngineLive.check.  The last return False stands under
\* "if asset_stats:", beside the inner if that compares the share and only
\* logs, so it is reached for every order in a symbol that is held
LiveCheck(self, order, account, held) ==
    LET asset_stats == AssetStats(order, held)
        cash_balance == account.non_marginable_buying_power
    IN  IF order.side = "BUY" /\ order.qty * order.price > cash_balance
        THEN FALSE
        ELSE IF order.side = "SELL"
                /\ (asset_stats = NoAsset \/ asset_stats.qty < order.qty)
        THEN FALSE
        ELSE IF order.side = "BUY"
                /\ order.qty * order.price > self.max_order_value
        THEN FALSE
        ELSE IF asset_stats # NoAsset
        THEN FALSE
        ELSE TRUE

LiveInit ==
    /\ BookIdle
    /\ MeIdle
    /\ RiskIdle
    /\ OmIdle
    /\ StratIdle
    /\ BtIdle
    /\ MtIdle
    /\ SingleIdle
    /\ \E self \in LiveEngines, order \in LiveOrders, account \in LiveAccounts,
          held \in LivePositions :
           conv = [pc |-> "live", self |-> self, order |-> order,
                   account |-> account, held |-> held]

live_check ==
    /\ conv.pc = "live"
    /\ conv' = [conv EXCEPT !.pc = "live_checked"] @@
                   [ret |-> LiveCheck(conv.self, conv.order, conv.account,
                                      conv.held)]
    /\ UNCHANGED offConv

LiveNext == live_check

SpecLive == LiveInit /\ [][LiveNext]_vars

\* C32: the live check returns TRUE exactly for the orders within the
\* limits: a SELL of no more than the position the broker reports in the
\* symbol; a BUY whose notional is within the cash, within max_order_value
\* and, where the symbol is already held, with notional + market value
\* within equity x max_asset_percentage.
C32_LiveLimits ==
    conv.pc = "live_checked" =>
        LET order == conv.order
            asset == AssetStats(order, conv.held)
            notional == order.qty * order.price
        IN  conv.ret =
                IF order.side = "SELL"
                THEN order.qty <= asset.qty
                ELSE /\ notional <= conv.account.non_marginable_buying_power
                     /\ notional <= conv.self.max_order_value
                     /\ asset # NoAsset =>
                            ~OverShare(order, asset, conv.account, conv.self)

(***************************************************************************)
(* Backtester._handle_fill called with fills of either side in any order,  *)
(* and _reset_state between them                                           *)
(***************************************************************************)
MaxHandled == 4

FillQtys == {1, 2}

FillsInit ==
    /\ BookIdle
    /\ MeIdle
    /\ RiskIdle
    /\ OmIdle
    /\ StratIdle
    /\ ConvIdle
    /\ MtIdle
    /\ SingleIdle
    /\ btRet = NoMetrics
    /\ btHist = [draws |-> <<>>, runs |-> <<>>]
    /\ bt = [NewBacktester(1000, 1, 0, <<>>) EXCEPT !.pc = "fills"]

\* _handle_fill(timestamp, side, qty, price); bt.i counts the calls
handle_fill ==
    /\ bt.pc = "fills"
    /\ bt.i < MaxHandled
    /\ \E side \in Sides, qty \in FillQtys, price \in BtPrices :
           bt' = [HandleFill(bt, bt.i + 1, side, qty, price) EXCEPT !.i = @ + 1]
    /\ UNCHANGED <<risk, om, audit, btRet, btHist, offBt>>

\* _reset_state, for the backtester's own fields; bt.runs counts the resets
reset_state ==
    /\ bt.pc = "fills"
    /\ bt.i > 0
    /\ bt.runs < MaxRuns
    /\ bt' = [ResetState(bt) EXCEPT !.runs = @ + 1]
    /\ UNCHANGED <<risk, om, audit, btRet, btHist, offBt>>

FillsNext == handle_fill \/ reset_state

SpecFills == FillsInit /\ [][FillsNext]_vars

RECURSIVE PnlSum(_)
PnlSum(completed) ==
    IF completed = <<>> THEN FracOf(0)
    ELSE FracAdd(completed[1].pnl, PnlSum(Tail(completed)))

MaxAdds == 3

AddsInit ==
    /\ MeIdle
    /\ RiskIdle
    /\ OmIdle
    /\ StratIdle
    /\ BtIdle
    /\ ConvIdle
    /\ MtIdle
    /\ SingleIdle
    /\ book = EmptyBook
    /\ trades = <<>>
    /\ fills = <<>>
    /\ admitted = <<>>

add_fresh ==
    \E id \in 1..MaxAdds, s \in Sides, p \in BookPrices, q \in BookQtys :
        \E order \in {[order_id |-> id, side |-> s, price |-> p, qty |-> q]} :
        \E r \in {AddOrder(book, order)} :
            /\ id \notin DOMAIN book.orders
            /\ book' = r.book
            /\ trades' = trades \o r.trades
            /\ fills' = fills \o r.fills
            /\ admitted' = Append(admitted, order)
            /\ UNCHANGED offBook

AddsNext == add_fresh

SpecAdds == AddsInit /\ [][AddsNext]_vars

\* the quantity of the trades the order took part in
RECURSIVE TradedBy(_, _)
TradedBy(ts, id) ==
    IF ts = <<>> THEN 0
    ELSE (IF id \in {Head(ts).buy_id, Head(ts).sell_id} THEN Head(ts).qty ELSE 0)
         + TradedBy(Tail(ts), id)

\* C39: under add_order calls with distinct ids, each order's original qty
\* is its remaining qty plus the quantities of the trades it took part in,
\* every trade has qty > 0, no order's qty is negative, and an order is
\* inactive exactly when its qty is 0.
C39_QuantityConserved ==
    /\ \A k \in 1..Len(admitted) :
           \E rec \in {book.orders[admitted[k].order_id]} :
               /\ admitted[k].qty = rec.qty + TradedBy(trades, rec.order_id)
               /\ rec.qty >= 0
               /\ ~rec.active <=> rec.qty = 0
    /\ \A i \in 1..Len(trades) :
           /\ trades[i].qty > 0
           /\ trades[i].buy_id # trades[i].sell_id

\* a SELL of 10 has taken two resting BUYs of 4 and rests with 2
C39_Witness ==
    /\ Len(admitted) = 3
    /\ Len(trades) = 2
    /\ admitted[3].side = "SELL"
    /\ admitted[3].qty = 10
    /\ book.orders[admitted[3].order_id].qty = 2
    /\ book.orders[admitted[3].order_id].active
    /\ ~book.orders[admitted[1].order_id].active
    /\ ~book.orders[admitted[2].order_id].active

====
